---- MODULE Spec2Model ----
(***************************************************************************)
(* ZotLink: the direct store adapter (ZoteroConnector.update_item,         *)
(* update_item_tags, delete_item, move_item_to_collection), the attachment *)
(* writer (PDFFetcher._attach_pdf_to_zotero), the provider chain           *)
(* (PDFFetcher.fetch_pdf) and the content validator                        *)
(* (ZoteroConnector._validate_pdf_content).                                *)
(*                                                                         *)
(* The store is one record of tables, each table a set of rows.  Every     *)
(* handler opens its own sqlite3 connection, runs its statements inside    *)
(* the implicit transaction Python's sqlite3 opens before the first        *)
(* INSERT/UPDATE/DELETE, and either reaches conn.commit() or leaves the    *)
(* function through `except`, in which case the connection is dropped      *)
(* without a commit and nothing it wrote reaches the store.                *)
(***************************************************************************)
EXTENDS Integers, Sequences, FiniteSets, TLC

VARIABLES
    db,             \* the store file: a record of tables
    last,           \* the last store-adapter call: its name and whether it succeeded
    pc,             \* fetch_pdf: "idle" | "loop" | "done"
    req,            \* fetch_pdf's arguments: item_key, source, save_to_zotero
    sources_order,  \* fetch_pdf's local sources_order
    idx,            \* position of the for-loop over sources_order (1-based)
    invoked,        \* the providers whose fetch strategy has been called, in call order
    all_results,    \* fetch_pdf's local all_results
    response,       \* the HTTP response the last invoked provider examined
    result,         \* what fetch_pdf returned
    candidate,      \* _validate_pdf_content's arguments: pdf_data, headers, pdf_url
    verdict,        \* what _validate_pdf_content returned
    call,           \* the last connector call: its name and what it met
    ret,            \* what the last connector call returned
    opened,         \* the files the last connector call opened or copied, in order
    tmp_files,      \* the snapshot files present in the temporary directory
    arxiv_metadata, \* what the arXiv API answered the last validation
    validation,     \* what validate_and_update_item returned
    conns           \* the point writes in progress, one connection each, statement by statement

vars ==
    << db, last, pc, req, sources_order, idx, invoked, all_results, response, result,
       candidate, verdict, call, ret, opened, tmp_files, arxiv_metadata, validation,
       conns >>
fetchVars == <<pc, req, sources_order, idx, invoked, all_results, response, result>>
validatorVars == <<candidate, verdict>>
connectorVars == <<call, ret, opened, tmp_files>>
reconcilerVars == <<arxiv_metadata, validation>>
writerVars == <<conns>>

(***************************************************************************)
(* Bounds of the model.                                                    *)
(***************************************************************************)
MaxUpdates == 2
MaxTags == 2

None == "None"

\* Python's `x or 0` applied to SQL MAX(): the largest element, 0 for an empty table.
Max(S) == IF S = {} THEN 0 ELSE CHOOSE m \in S : \A x \in S : x <= m

Range(seq) == {seq[i] : i \in 1..Len(seq)}

RECURSIVE SeqsUpTo(_, _)
SeqsUpTo(S, n) ==
    IF n = 0 THEN {<<>>}
    ELSE LET shorter == SeqsUpTo(S, n - 1)
         IN shorter \cup {Append(q, x) : q \in {p \in shorter : Len(p) = n - 1}, x \in S}

(***************************************************************************)
(* The store's controlled vocabularies and the rows the owning application *)
(* created.                                                                *)
(***************************************************************************)
\* The `fields` table (FieldCatalog): what the tests' schema inserts, plus `date`.
fields ==
    { [fieldID |-> 1, fieldName |-> "title"],
      [fieldID |-> 2, fieldName |-> "date"] }

\* The `collections` table of library 1.
collections == { [collectionID |-> 1, collectionKey |-> "C1"] }

Values == {"A", "B"}
TagNames == {"t1", "t2"}

\* A consistent store: two articles, an attachment and a note under the first, one
\* value row shared by both titles when `shared` (the owning application keeps one
\* itemDataValues row per distinct value), the first item in the collection.
InitStore(shared) ==
    [ fields |-> fields,
      items |->
        { [itemID |-> 1, key |-> "K1", itemTypeID |-> 1],
          [itemID |-> 2, key |-> "K2", itemTypeID |-> 1],
          [itemID |-> 3, key |-> "K3", itemTypeID |-> 3],
          [itemID |-> 4, key |-> "K4", itemTypeID |-> 14] },
      itemDataValues |->
        { [valueID |-> 1, value |-> "A"] }
        \cup (IF shared THEN {} ELSE { [valueID |-> 2, value |-> "B"] }),
      itemData |->
        { [itemID |-> 1, fieldID |-> 1, valueID |-> 1],
          [itemID |-> 2, fieldID |-> 1, valueID |-> IF shared THEN 1 ELSE 2] },
      tags |-> { [tagID |-> 1, name |-> "t1"] },
      itemTags |->
        { [itemID |-> 1, tagID |-> 1, type |-> 1],
          [itemID |-> 2, tagID |-> 1, type |-> 0] },
      itemCreators |->
        { [itemID |-> 1, creatorID |-> 1, orderIndex |-> 0],
          [itemID |-> 1, creatorID |-> 2, orderIndex |-> 1],
          [itemID |-> 2, creatorID |-> 1, orderIndex |-> 0] },
      collectionItems |->
        { [collectionID |-> 1, itemID |-> 1] },
      itemAttachments |->
        { [itemID |-> 3, parentItemID |-> 1, contentType |-> "application/pdf"] },
      itemNotes |->
        { [itemID |-> 4, parentItemID |-> 1] } ]

InitStores == { InitStore(shared) : shared \in BOOLEAN }

(***************************************************************************)
(* What a call meets: the owning application answering the ping or not,    *)
(* the store file present or not.                                          *)
(***************************************************************************)
Envs == {"ok", "not_running", "db_missing"}

\* A slip that takes the application for running whatever the ping did.
is_running_always(env) == TRUE

\* is_running(): the ping answered with HTTP 200.
is_running(env) == env # "not_running"

\* `db_path and db_path.exists()`.
db_exists(env) == env # "db_missing"

\* SELECT itemID FROM items WHERE key = ? AND libraryID = 1
SelectItemID(s, item_key) == { i.itemID : i \in { r \in s.items : r.key = item_key } }

Ret(s, success, error, item_id) ==
    [ db |-> s, success |-> success, error |-> error, item_id |-> item_id ]

\* A slip that reports a missing item as a missing store file.
Gate_unnamed_item(s, item_key, env) ==
    IF ~is_running(env) THEN "Zotero is not running"
    ELSE IF ~db_exists(env) \/ SelectItemID(s, item_key) = {} THEN "Zotero database not found"
    ELSE ""

\* The part every point write shares: the running check, the path check, the
\* lookup of the item's internal id.  "" when the call may proceed.
Gate(s, item_key, env) ==
    IF ~is_running(env) THEN "Zotero is not running"
    ELSE IF ~db_exists(env) THEN "Zotero database not found"
    ELSE IF SelectItemID(s, item_key) = {} THEN "Item not found"
    ELSE ""

(***************************************************************************)
(* update_item                                                             *)
(***************************************************************************)
\* The keys of update_item's field_name_to_id.
field_name_to_id == {"title", "abstractNote", "date", "url", "publicationTitle", "DOI"}

\* SELECT fieldID FROM fields WHERE fieldName = ?
SelectFieldID(s, field_name) ==
    { f.fieldID : f \in { r \in s.fields : r.fieldName = field_name } }

\* A slip that never finds the existing row, so every call inserts.
SelectValueID_none(s, item_id, field_id) == {}

\* SELECT valueID FROM itemData WHERE itemID = ? AND fieldID = ?
SelectValueID(s, item_id, field_id) ==
    { d.valueID : d \in { r \in s.itemData : r.itemID = item_id /\ r.fieldID = field_id } }

\* UPDATE itemDataValues SET value = ? WHERE valueID = (SELECT valueID FROM itemData ...)
UpdateValue(s, value_id, field_value) ==
    [ s EXCEPT !.itemDataValues =
        { IF v.valueID = value_id THEN [v EXCEPT !.value = field_value] ELSE v : v \in @ } ]

\* SELECT MAX(valueID); INSERT INTO itemDataValues; INSERT INTO itemData
InsertValue(s, item_id, field_id, field_value) ==
    LET max_value_id == Max({ v.valueID : v \in s.itemDataValues })
    IN [ s EXCEPT
           !.itemDataValues = @ \cup { [valueID |-> max_value_id + 1, value |-> field_value] },
           !.itemData = @ \cup
               { [itemID |-> item_id, fieldID |-> field_id, valueID |-> max_value_id + 1] } ]

\* One turn of `for field_name, field_value in updates.items()`.
SetField(s, item_id, field_name, field_value) ==
    LET field_row == SelectFieldID(s, field_name)
        field_id == CHOOSE f \in field_row : TRUE
        value_row == SelectValueID(s, item_id, field_id)
    IN IF field_name \notin field_name_to_id \/ field_row = {}
       THEN [ db |-> s, updated |-> FALSE ]
       ELSE IF value_row # {}
       THEN [ db |-> UpdateValue(s, CHOOSE v \in value_row : TRUE, field_value),
              updated |-> TRUE ]
       ELSE [ db |-> InsertValue(s, item_id, field_id, field_value), updated |-> TRUE ]

\* The whole loop: `updates` is the dict as its sequence of (name, value) pairs.
RECURSIVE SetFields(_, _, _, _)
SetFields(s, item_id, updates, updated_fields) ==
    IF updates = <<>>
    THEN [ db |-> s, updated_fields |-> updated_fields ]
    ELSE LET step == SetField(s, item_id, Head(updates)[1], Head(updates)[2])
         IN SetFields(step.db, item_id, Tail(updates),
                      IF step.updated THEN Append(updated_fields, Head(updates)[1])
                      ELSE updated_fields)

update_item(s, item_key, updates, env) ==
    LET gate == Gate(s, item_key, env)
        item_id == CHOOSE i \in SelectItemID(s, item_key) : TRUE
        done == SetFields(s, item_id, updates, <<>>)
    IN IF gate # "" THEN Ret(s, FALSE, gate, 0)
       ELSE IF done.updated_fields # <<>> THEN Ret(done.db, TRUE, "", item_id)
       ELSE Ret(done.db, FALSE, "No fields were updated", item_id)

\* The field maps a caller passes: dicts of at most MaxUpdates entries, as the
\* sequence of their (name, value) pairs; a dict holds a name once.
UpdatePairs ==
    { <<"title", "A">>, <<"title", "B">>, <<"date", "B">>, <<"DOI", "A">>, <<"extra", "A">> }

UpdateMaps ==
    { u \in SeqsUpTo(UpdatePairs, MaxUpdates) :
        \A i, j \in 1..Len(u) : i # j => u[i][1] # u[j][1] }

StoreKeys == {"K1", "K2"}

(***************************************************************************)
(* update_item_tags                                                        *)
(***************************************************************************)
\* A slip that leaves the existing links in place.
DeleteItemTags_keep(s, item_id) == s

\* DELETE FROM itemTags WHERE itemID = ?
DeleteItemTags(s, item_id) ==
    [ s EXCEPT !.itemTags = { r \in @ : r.itemID # item_id } ]

\* SELECT tagID FROM tags WHERE name = ?
SelectTagID(s, tag) == { t.tagID : t \in { r \in s.tags : r.name = tag } }

\* One turn of `for tag in tags`: get or create the tag, then link it (type 0).
LinkTag(s, item_id, tag) ==
    LET tag_row == SelectTagID(s, tag)
        max_tag_id == Max({ t.tagID : t \in s.tags })
        tag_id == IF tag_row # {} THEN CHOOSE t \in tag_row : \A u \in tag_row : t <= u
                  ELSE max_tag_id + 1
        withTag == IF tag_row # {} THEN s
                   ELSE [ s EXCEPT !.tags = @ \cup { [tagID |-> tag_id, name |-> tag] } ]
    IN [ withTag EXCEPT !.itemTags = @ \cup
           { [itemID |-> item_id, tagID |-> tag_id, type |-> 0] } ]

RECURSIVE LinkTags(_, _, _)
LinkTags(s, item_id, tags) ==
    IF tags = <<>> THEN s
    ELSE LinkTags(LinkTag(s, item_id, Head(tags)), item_id, Tail(tags))

update_item_tags(s, item_key, tags, env) ==
    LET gate == Gate(s, item_key, env)
        item_id == CHOOSE i \in SelectItemID(s, item_key) : TRUE
    IN IF gate # "" THEN Ret(s, FALSE, gate, 0)
       ELSE Ret(LinkTags(DeleteItemTags(s, item_id), item_id, tags), TRUE, "", item_id)

\* The tag lists a caller passes: at most MaxTags names, repeats allowed.
TagLists == SeqsUpTo(TagNames, MaxTags)

(***************************************************************************)
(* delete_item                                                             *)
(***************************************************************************)
\* DELETE FROM itemCreators WHERE itemID = ?
DeleteItemCreators(s, item_id) ==
    [ s EXCEPT !.itemCreators = { r \in @ : r.itemID # item_id } ]

\* DELETE FROM itemData WHERE itemID = ?
DeleteItemData(s, item_id) ==
    [ s EXCEPT !.itemData = { r \in @ : r.itemID # item_id } ]

\* DELETE FROM items WHERE itemID = ?
DeleteItemRow(s, item_id) ==
    [ s EXCEPT !.items = { r \in @ : r.itemID # item_id } ]

\* The four DELETE statements, in the handler's order.
DeleteRows(s, item_id) ==
    DeleteItemRow(DeleteItemData(DeleteItemCreators(DeleteItemTags(s, item_id), item_id),
                                 item_id), item_id)

delete_item(s, item_key, env) ==
    LET gate == Gate(s, item_key, env)
        item_id == CHOOSE i \in SelectItemID(s, item_key) : TRUE
    IN IF gate # "" THEN Ret(s, FALSE, gate, 0)
       ELSE Ret(DeleteRows(s, item_id), TRUE, "", item_id)

(***************************************************************************)
(* move_item_to_collection                                                 *)
(***************************************************************************)
\* SELECT collectionID FROM collections WHERE libraryID = 1 AND collectionKey = ?
SelectCollectionID(collection_key) ==
    { c.collectionID : c \in { r \in collections : r.collectionKey = collection_key } }

\* INSERT INTO collectionItems (collectionID, itemID) VALUES (?, ?)
InsertCollectionItem(s, collection_id, item_id) ==
    [ s EXCEPT !.collectionItems = @ \cup
        { [collectionID |-> collection_id, itemID |-> item_id] } ]

move_item_to_collection(s, item_key, collection_key, env) ==
    LET gate == Gate(s, item_key, env)
        item_id == CHOOSE i \in SelectItemID(s, item_key) : TRUE
        coll_row == SelectCollectionID(collection_key)
        collection_id == CHOOSE c \in coll_row : TRUE
    IN IF gate # "" THEN Ret(s, FALSE, gate, 0)
       ELSE IF coll_row = {} THEN Ret(s, FALSE, "Collection not found", item_id)
       ELSE IF \E r \in s.collectionItems :
                   r.collectionID = collection_id /\ r.itemID = item_id
       THEN Ret(s, TRUE, "", item_id)
       ELSE Ret(InsertCollectionItem(s, collection_id, item_id), TRUE, "", item_id)

CollectionKeys == {"C1", "CX"}

(***************************************************************************)
(* _attach_pdf_to_zotero                                                   *)
(***************************************************************************)
\* The column list and the VALUES list of the INSERT INTO itemAttachments statement.
AttachmentColumns ==
    << "itemID", "parentItemID", "contentType", "filename", "path", "storageHash",
       "sourceItemKey" >>
AttachmentValues ==
    << "?", "?", "'application/pdf'", "?", "''", "''", "NULL", "?" >>

\* sqlite3 prepares a statement only when VALUES has one term per named column;
\* otherwise execute() raises OperationalError ("8 values for 7 columns").
AttachmentInsertPrepares == Len(AttachmentColumns) = Len(AttachmentValues)

\* The columns of itemCreators, and those the creator-stub INSERT names.
ItemCreatorsColumns == {"itemID", "creatorID", "creatorTypeID"}
CreatorStubColumns == {"creatorID", "firstName", "lastName", "creatorTypeID"}

\* execute() raises OperationalError when the statement names a column the table lacks.
CreatorStubInsertPrepares == CreatorStubColumns \subseteq ItemCreatorsColumns

\* INSERT INTO items ... VALUES (attachment_item_id, 3, ..., new_item_key, ...):
\* `key` is UNIQUE, so a key some row already holds raises IntegrityError.
InsertAttachmentItem(s, attachment_item_id, new_item_key) ==
    [ s EXCEPT !.items = @ \cup
        { [itemID |-> attachment_item_id, key |-> new_item_key, itemTypeID |-> 3] } ]

\* INSERT INTO itemData (title) and INSERT INTO itemDataValues (the filename).
InsertAttachmentTitle(s, attachment_item_id, attachment_value_id, filename) ==
    [ s EXCEPT
        !.itemData = @ \cup
            { [itemID |-> attachment_item_id, fieldID |-> 1,
               valueID |-> attachment_value_id] },
        !.itemDataValues = @ \cup { [valueID |-> attachment_value_id, value |-> filename] } ]

\* INSERT INTO itemAttachments (...) VALUES (...)
InsertAttachmentRow(s, attachment_item_id, item_id) ==
    [ s EXCEPT !.itemAttachments = @ \cup
        { [itemID |-> attachment_item_id, parentItemID |-> item_id,
           contentType |-> "application/pdf"] } ]

\* SELECT MAX(itemID) FROM items; attachment_item_id = max_item_id + 1
NextItemID(s) == Max({ i.itemID : i \in s.items }) + 1

AttachRet(s, success, attachment_key, error, item_id) ==
    [ db |-> s, success |-> success, attachment_key |-> attachment_key,
      error |-> error, item_id |-> item_id ]

\* The handler: every statement up to the first that raises runs in the implicit
\* transaction; only conn.commit() makes them the store's.
_attach_pdf_to_zotero(s, item_key, new_item_key, env) ==
    LET gate == Gate(s, item_key, env)
        item_id == CHOOSE i \in SelectItemID(s, item_key) : TRUE
        attachment_item_id == NextItemID(s)
        attachment_value_id == Max({ v.valueID : v \in s.itemDataValues }) + 1
        written ==
            InsertAttachmentRow(
                InsertAttachmentTitle(
                    InsertAttachmentItem(s, attachment_item_id, new_item_key),
                    attachment_item_id, attachment_value_id, "A"),
                attachment_item_id, item_id)
    IN IF gate = "Zotero is not running"
       THEN AttachRet(s, FALSE, None, "Zotero not running", 0)
       ELSE IF gate # "" THEN AttachRet(s, FALSE, None, gate, 0)
       ELSE IF \E i \in s.items : i.key = new_item_key
       THEN AttachRet(s, FALSE, None, "UNIQUE constraint failed: items.key", item_id)
       ELSE IF ~AttachmentInsertPrepares
       THEN AttachRet(s, FALSE, None, "8 values for 7 columns", item_id)
       ELSE IF ~CreatorStubInsertPrepares
       THEN AttachRet(s, FALSE, None, "table itemCreators has no column named firstName",
                      item_id)
       ELSE AttachRet(written, TRUE, new_item_key, "", item_id)

\* The 8-character keys random.choices can draw: fresh ones and one a row holds.
NewItemKeys == {"N1", "N2", "K2"}

(***************************************************************************)
(* _validate_pdf_content                                                   *)
(*                                                                         *)
(* A byte buffer is the record of what the validator reads of it: its      *)
(* length, whether it starts with b'%PDF', which markup tokens its first   *)
(* 2048 bytes hold once decoded and lower-cased, whether b'%%EOF' occurs   *)
(* in its last 1024 bytes.                                                 *)
(***************************************************************************)
MinPdfSize == 1024
NatureMinSize == 500000

\* html_indicators, in list order.
html_indicators == << "<html", "<body", "<div", "<!doctype", "<title>" >>

\* str.lower() on the strings of the model.
Lower(str) ==
    CASE str = "Application/PDF" -> "application/pdf"
      [] str = "https://WWW.NATURE.COM/articles/s1.pdf" -> "https://www.nature.com/articles/s1.pdf"
      [] str = "Old Title" -> "old title"
      [] str = "New Title" -> "new title"
      [] str = " Old Title " -> " old title "
      [] str = "10.48550/arXiv.1706.03762" -> "10.48550/arxiv.1706.03762"
      [] OTHER -> str

\* `'pdf' in content_type`, on lower-cased values.
ContainsPdf(content_type) ==
    content_type \in {"application/pdf", "application/x-pdf"}

\* `'nature.com' in pdf_url.lower()`.
ContainsNature(pdf_url) == Lower(pdf_url) = "https://www.nature.com/articles/s1.pdf"

Verdict(is_valid, reason) == [ is_valid |-> is_valid, reason |-> reason ]

\* [indicator for indicator in html_indicators if indicator in pdf_text]
found_html(pdf_data) ==
    SelectSeq(html_indicators, LAMBDA indicator : indicator \in pdf_data.html)

\* A slip that tests the magic bytes before the size.
_validate_pdf_content_magic_first(pdf_data, headers, pdf_url) ==
    LET pdf_size == pdf_data.size
        content_type == Lower(headers)
    IN IF ~pdf_data.magic THEN Verdict(FALSE, "magic")
       ELSE IF pdf_size < MinPdfSize THEN Verdict(FALSE, "size")
       ELSE IF content_type # "" /\ ~ContainsPdf(content_type)
               /\ content_type # "application/octet-stream"
       THEN Verdict(FALSE, "content_type")
       ELSE IF found_html(pdf_data) # <<>> THEN Verdict(FALSE, "html")
       ELSE IF ContainsNature(pdf_url) /\ pdf_size < NatureMinSize
       THEN Verdict(FALSE, "domain_size")
       ELSE IF ~pdf_data.eof THEN Verdict(FALSE, "eof")
       ELSE Verdict(TRUE, "ok")

\* The six checks, in the order of the function body; the reason names the check.
_validate_pdf_content(pdf_data, headers, pdf_url) ==
    LET pdf_size == pdf_data.size
        content_type == Lower(headers)
    IN IF pdf_size < MinPdfSize THEN Verdict(FALSE, "size")
       ELSE IF content_type # "" /\ ~ContainsPdf(content_type)
               /\ content_type # "application/octet-stream"
       THEN Verdict(FALSE, "content_type")
       ELSE IF ~pdf_data.magic THEN Verdict(FALSE, "magic")
       ELSE IF found_html(pdf_data) # <<>> THEN Verdict(FALSE, "html")
       ELSE IF ContainsNature(pdf_url) /\ pdf_size < NatureMinSize
       THEN Verdict(FALSE, "domain_size")
       ELSE IF ~pdf_data.eof THEN Verdict(FALSE, "eof")
       ELSE Verdict(TRUE, "ok")

\* The buffers, headers and URLs the validator is given.
BufferSizes == {500, 1023, 1024, 499999, 500000, 2097152}
HtmlTokenSets ==
    { {}, {"<html"}, {"<body"}, {"<div"}, {"<!doctype"}, {"<title>"}, {"<html", "<body"} }
Buffers ==
    [ size : BufferSizes, magic : BOOLEAN, html : HtmlTokenSets, eof : BOOLEAN ]
ContentTypes ==
    { "", "application/pdf", "Application/PDF", "application/x-pdf",
      "application/octet-stream", "application/octet-stream; charset=binary",
      "text/html" }
PdfUrls ==
    { "https://www.nature.com/articles/s1.pdf", "https://WWW.NATURE.COM/articles/s1.pdf",
      "https://arxiv.org/pdf/1706.03762.pdf" }
Candidates == [ pdf_data : Buffers, headers : ContentTypes, pdf_url : PdfUrls ]

NoBuffer == [ size |-> 0, magic |-> FALSE, html |-> {}, eof |-> FALSE ]
NoCandidate == [ pdf_data |-> NoBuffer, headers |-> "", pdf_url |-> "" ]
NoVerdict == Verdict(FALSE, "none")

(***************************************************************************)
(* fetch_pdf and the providers                                             *)
(***************************************************************************)
all_sources ==
    << "arxiv", "mdpi", "open_access", "scihub", "annas_archive", "libgen", "publisher" >>

\* A slip that drops the providers after the preferred one.
_get_source_order_preferred_only(source) ==
    IF source \in Range(all_sources) THEN <<source>> ELSE all_sources

_get_source_order(source) ==
    IF source = "auto" THEN all_sources
    ELSE IF source \in Range(all_sources)
    THEN <<source>> \o SelectSeq(all_sources, LAMBDA s : s # source)
    ELSE all_sources

\* The "source" a provider's success dict carries (open_access: its first sub-source).
SourceLabel(src) ==
    CASE src = "arxiv" -> "arXiv"
      [] src = "mdpi" -> "MDPI"
      [] src = "open_access" -> "Unpaywall"
      [] src = "scihub" -> "Sci-Hub"
      [] src = "annas_archive" -> "Anna's Archive"
      [] src = "libgen" -> "Library Genesis"
      [] src = "publisher" -> "Publisher Direct"

\* What a provider's strategy meets: no usable identifier on the record (it returns
\* before any request), a request that raises, or the HTTP response it examines.
NoResponse ==
    [ kind |-> "none", status |-> 0, headers |-> "", url |-> "", content |-> NoBuffer ]
Http(status, headers, url, content) ==
    [ kind |-> "http", status |-> status, headers |-> headers, url |-> url,
      content |-> content ]
TinyPdf == [ size |-> 500, magic |-> TRUE, html |-> {}, eof |-> FALSE ]
GoodPdf == [ size |-> 2097152, magic |-> TRUE, html |-> {}, eof |-> TRUE ]
ErrorPage == [ size |-> 1023, magic |-> FALSE, html |-> {"<html"}, eof |-> FALSE ]
Responses ==
    { [NoResponse EXCEPT !.kind = "no_identifier"],
      [NoResponse EXCEPT !.kind = "exception"],
      [NoResponse EXCEPT !.kind = "connection_error"],
      Http(404, "text/html", "https://arxiv.org/pdf/1706.03762.pdf", ErrorPage),
      Http(200, "text/html", "https://arxiv.org/pdf/1706.03762.pdf", ErrorPage),
      Http(200, "application/pdf", "https://arxiv.org/pdf/1706.03762.pdf", TinyPdf),
      Http(200, "application/pdf", "https://arxiv.org/pdf/1706.03762.pdf", GoodPdf) }

\* A provider's return value: None, or its success dict.
\* `raised`: the call did not return, an exception left the provider.
NoFetchResult ==
    [ found |-> FALSE, success |-> FALSE, source |-> "", content |-> NoBuffer, url |-> "",
      raised |-> FALSE ]

\* `content.startswith(b'%PDF')`: the one test every provider makes of the bytes.
ProviderAccepts(resp) ==
    resp.kind = "http" /\ resp.status = 200 /\ resp.content.magic

\* _fetch_from_<src>: the success dict when the response is a 200 whose bytes pass
\* the provider's test, None otherwise (exceptions are caught inside the provider).
\* A slip that lets a request's exception leave the provider.
FetchFrom_raises(src, resp) ==
    IF ProviderAccepts(resp)
    THEN [ found |-> TRUE, success |-> TRUE, source |-> SourceLabel(src),
           content |-> resp.content, url |-> resp.url, raised |-> FALSE ]
    ELSE [ NoFetchResult EXCEPT !.raised = (resp.kind = "exception") ]

FetchFrom(src, resp) ==
    IF ProviderAccepts(resp)
    THEN [ found |-> TRUE, success |-> TRUE, source |-> SourceLabel(src),
           content |-> resp.content, url |-> resp.url, raised |-> FALSE ]
    ELSE NoFetchResult

\* requests.exceptions.ConnectionError, the one exception _fetch_from_mdpi catches
\* inside its download loop.
ConnectionError == [NoResponse EXCEPT !.kind = "connection_error"]

\* range(3) of `for attempt in range(3)`.
MdpiAttempts == 3

\* What the second and the third request of _fetch_from_mdpi's download loop can meet.
RetryResponses ==
    { ConnectionError,
      Http(404, "text/html", "https://www.mdpi.com/1/1/1/pdf", ErrorPage),
      Http(200, "application/pdf", "https://www.mdpi.com/1/1/1/pdf", GoodPdf) }

MdpiRetries == { q \in SeqsUpTo(RetryResponses, MdpiAttempts - 1) : Len(q) = MdpiAttempts - 1 }

\* The download loop of _fetch_from_mdpi from its attempt-th turn, `requests` made so
\* far: a PDF returns, a ConnectionError or any other response goes to the next
\* turn, any other exception leaves the loop for the provider's outer `except`.
RECURSIVE MdpiDownload(_, _, _)
MdpiDownload(responses, attempt, requests) ==
    IF attempt > MdpiAttempts
    THEN [ response |-> responses[MdpiAttempts], requests |-> requests ]
    ELSE IF responses[attempt].kind = "exception" \/ ProviderAccepts(responses[attempt])
    THEN [ response |-> responses[attempt], requests |-> requests + 1 ]
    ELSE MdpiDownload(responses, attempt + 1, requests + 1)

\* One call of a provider: the response its result is made of, and the number of
\* requests it sent to that response's URL.  Only _fetch_from_mdpi asks a URL again.
ProviderCall(src, resp, retries) ==
    IF resp.kind = "no_identifier" THEN [ response |-> resp, requests |-> 0 ]
    ELSE IF src = "mdpi" THEN MdpiDownload(<<resp>> \o retries, 1, 0)
    ELSE [ response |-> resp, requests |-> 1 ]

NoResult ==
    [ returned |-> FALSE, success |-> FALSE, error |-> "", source |-> "", size |-> 0,
      pdf_content |-> NoBuffer, attachment_added |-> FALSE, attachment_key |-> None,
      tried_sources |-> <<>>, attempts |-> <<>> ]

\* {"success": False, "error": ...}
ErrorResult(error) == [ NoResult EXCEPT !.returned = TRUE, !.error = error ]

\* get_item as fetch_pdf uses it: fetch_pdf's error when get_item fails, "" when it
\* returns the item.
get_item_error(s, item_key, env) ==
    IF ~is_running(env) THEN "Could not get item: Zotero is not running"
    ELSE IF ~db_exists(env) \/ SelectItemID(s, item_key) = {}
    THEN "Could not get item: Item not found"
    ELSE ""

\* A slip that never leaves the loop on a success.
IsSuccess_never(fetch_result) == FALSE

\* `if fetch_result and fetch_result.get("success")`
IsSuccess(fetch_result) == fetch_result.found /\ fetch_result.success

\* `if fetch_result: all_results.append(fetch_result)`
Collect(results, fetch_result) ==
    IF fetch_result.found THEN Append(results, fetch_result) ELSE results

\* The dict fetch_pdf returns from inside the loop.
\* A slip that reports the acquisition by the attachment's outcome.
SuccessResult_by_attachment(fetch_result, save_to_zotero, attach_result) ==
    [ NoResult EXCEPT
        !.returned = TRUE,
        !.success = ~save_to_zotero \/ attach_result.success,
        !.error = IF save_to_zotero /\ ~attach_result.success THEN attach_result.error ELSE "",
        !.source = fetch_result.source,
        !.size = fetch_result.content.size,
        !.pdf_content = fetch_result.content,
        !.attachment_added = save_to_zotero /\ attach_result.success,
        !.attachment_key = IF save_to_zotero THEN attach_result.attachment_key ELSE None ]

SuccessResult(fetch_result, save_to_zotero, attach_result) ==
    [ NoResult EXCEPT
        !.returned = TRUE,
        !.success = TRUE,
        !.source = fetch_result.source,
        !.size = fetch_result.content.size,
        !.pdf_content = fetch_result.content,
        !.attachment_added = save_to_zotero /\ attach_result.success,
        !.attachment_key = IF save_to_zotero THEN attach_result.attachment_key ELSE None ]

\* The dict fetch_pdf returns after the loop.
ExhaustedResult(order, results) ==
    [ NoResult EXCEPT
        !.returned = TRUE,
        !.error = "Could not find PDF from any source",
        !.tried_sources = order,
        !.attempts = results ]

\* The for-loop's step to the next element of sources_order.
NextIndex(i) == i + 1

NoRequest == [ item_key |-> "", source |-> "", save_to_zotero |-> FALSE ]

FetchIdle ==
    /\ pc = "idle"
    /\ req = NoRequest
    /\ sources_order = <<>>
    /\ idx = 0
    /\ invoked = <<>>
    /\ all_results = <<>>
    /\ response = NoResponse
    /\ result = NoResult

NoCall == [ op |-> "none", success |-> FALSE ]

\* No connector call made yet: nothing returned, no file opened, no snapshot file.
NoConnectorCall == [ op |-> "none", env |-> "ok", fs |-> "ok" ]
NoReturn ==
    [ success |-> FALSE, error |-> "", version |-> None, items |-> {}, creators |-> <<>> ]
ConnectorIdle ==
    /\ call = NoConnectorCall
    /\ ret = NoReturn
    /\ opened = <<>>
    /\ tmp_files = {}

\* No validation made yet.
NoMetadata ==
    [ error |-> "", title |-> "", abstract |-> "", date |-> "", authors |-> <<>>,
      doi |-> "" ]
NoZoteroMetadata ==
    [ title |-> "", abstract |-> "", date |-> "", doi |-> "", creators |-> <<>> ]
NoValidation ==
    [ returned |-> FALSE, success |-> FALSE, error |-> "", item_key |-> "",
      apply_updates |-> FALSE, zotero_metadata |-> NoZoteroMetadata,
      differences |-> {}, is_match |-> FALSE,
      message |-> "", updates_applied |-> <<>>, update_result |-> FALSE ]
ReconcilerIdle ==
    /\ arxiv_metadata = NoMetadata
    /\ validation = NoValidation

\* The invocations that can be in progress at once, each with its own connection.
Writers == {1, 2}

NoStore ==
    [ fields |-> {}, items |-> {}, itemDataValues |-> {}, itemData |-> {}, tags |-> {},
      itemTags |-> {}, itemCreators |-> {}, collectionItems |-> {},
      itemAttachments |-> {}, itemNotes |-> {} ]

\* A connection before its call: the call's arguments, its locals, the store as its
\* open transaction sees it (`work`, while `in_txn`), the ids it took from MAX + 1
\* with the MAX it read, and what the call returned.
NoConn ==
    [ pc |-> "idle", op |-> "none", item_key |-> "", updates |-> <<>>, tags |-> <<>>,
      collection_key |-> "", new_item_key |-> "", item_id |-> 0, field_id |-> 0,
      tag_id |-> 0, max_id |-> 0, max_item_id |-> 0, updated_fields |-> <<>>,
      work |-> NoStore, in_txn |-> FALSE, written |-> 0, allocated |-> {},
      raised |-> FALSE, returned |-> FALSE, success |-> FALSE, error |-> "" ]

WritersIdle == conns = [ w \in Writers |-> NoConn ]

(***************************************************************************)
(* The state machine.                                                      *)
(***************************************************************************)
Init ==
    /\ db \in InitStores
    /\ last = NoCall
    /\ FetchIdle
    /\ candidate = NoCandidate
    /\ verdict = NoVerdict
    /\ ConnectorIdle
    /\ ReconcilerIdle
    /\ WritersIdle

Called(op, r) ==
    /\ db' = r.db
    /\ last' = [op |-> op, success |-> r.success]
    /\ UNCHANGED <<fetchVars, validatorVars, connectorVars, reconcilerVars, writerVars>>

UpdateItem ==
    \E item_key \in StoreKeys, updates \in UpdateMaps, env \in Envs :
        Called("update_item", update_item(db, item_key, updates, env))

UpdateItemTags ==
    \E item_key \in StoreKeys, tags \in TagLists, env \in Envs :
        Called("update_item_tags", update_item_tags(db, item_key, tags, env))

DeleteItem ==
    \E item_key \in StoreKeys, env \in Envs :
        Called("delete_item", delete_item(db, item_key, env))

MoveItemToCollection ==
    \E item_key \in StoreKeys, collection_key \in CollectionKeys, env \in Envs :
        Called("move_item_to_collection",
               move_item_to_collection(db, item_key, collection_key, env))

\* _attach_pdf_to_zotero called on its own, outside a fetch.
AttachPdf ==
    \E item_key \in StoreKeys, new_item_key \in NewItemKeys, env \in Envs :
        Called("attach_pdf", _attach_pdf_to_zotero(db, item_key, new_item_key, env))

Next ==
    \/ UpdateItem
    \/ UpdateItemTags
    \/ DeleteItem
    \/ MoveItemToCollection
    \/ AttachPdf

Spec == Init /\ [][Next]_vars

(***************************************************************************)
(* fetch_pdf, one provider call per step.                                  *)
(***************************************************************************)
FetchKeys == {"K1", "KX"}
SourceArgs == Range(all_sources) \cup {"auto", "invalid"}

\* Lines 56-81: the item lookup and the provider order.
FetchStart ==
    /\ pc = "idle"
    /\ \E item_key \in FetchKeys, source \in SourceArgs, save_to_zotero \in BOOLEAN,
          env \in Envs :
        LET error == get_item_error(db, item_key, env)
        IN /\ req' = [ item_key |-> item_key, source |-> source,
                       save_to_zotero |-> save_to_zotero ]
           /\ IF error # ""
              THEN /\ pc' = "done"
                   /\ result' = ErrorResult(error)
                   /\ sources_order' = <<>>
                   /\ idx' = 0
              ELSE /\ pc' = "loop"
                   /\ result' = NoResult
                   /\ sources_order' = _get_source_order(source)
                   /\ idx' = 1
    /\ invoked' = <<>>
    /\ all_results' = <<>>
    /\ response' = NoResponse
    /\ UNCHANGED <<db, last, validatorVars, connectorVars, reconcilerVars, writerVars>>

\* One turn of `for src in sources_order` (lines 83-123), and the return that
\* follows the loop when this was its last turn (lines 125-131).
FetchTry ==
    /\ pc = "loop"
    /\ \E first \in Responses, env \in Envs, new_item_key \in NewItemKeys,
          retries \in (IF sources_order[idx] = "mdpi" THEN MdpiRetries ELSE { <<>> }) :
        LET src == sources_order[idx]
            provider_call == ProviderCall(src, first, retries)
            resp == provider_call.response
            fetch_result == FetchFrom(src, resp)
            attach_result == _attach_pdf_to_zotero(db, req.item_key, new_item_key, env)
            results == Collect(all_results, fetch_result)
        IN /\ invoked' = Append(invoked, [ src |-> src,
                                          success |-> fetch_result.found
                                                      /\ fetch_result.success,
                                          requests |-> provider_call.requests ])
           /\ response' = resp
           /\ IF fetch_result.raised
              THEN \* lines 133-135: `except Exception as e` around the whole body
                   /\ result' = ErrorResult("exception")
                   /\ pc' = "done"
                   /\ UNCHANGED <<idx, all_results, db, last>>
              ELSE IF IsSuccess(fetch_result)
              THEN /\ result' = SuccessResult(fetch_result, req.save_to_zotero, attach_result)
                   /\ db' = IF req.save_to_zotero THEN attach_result.db ELSE db
                   /\ last' = IF req.save_to_zotero
                              THEN [ op |-> "attach_pdf", success |-> attach_result.success ]
                              ELSE last
                   /\ pc' = "done"
                   /\ UNCHANGED <<idx, all_results>>
              ELSE /\ all_results' = results
                   /\ idx' = NextIndex(idx)
                   /\ IF NextIndex(idx) <= Len(sources_order)
                      THEN pc' = "loop" /\ result' = result
                      ELSE /\ pc' = "done"
                           /\ result' = ExhaustedResult(sources_order, results)
                   /\ UNCHANGED <<db, last>>
    /\ UNCHANGED <<req, sources_order, validatorVars, connectorVars, reconcilerVars, writerVars>>

\* The caller takes the result; the fetcher is ready for the next request.
FetchReturn ==
    /\ pc = "done"
    /\ pc' = "idle"
    /\ req' = NoRequest
    /\ sources_order' = <<>>
    /\ idx' = 0
    /\ invoked' = <<>>
    /\ all_results' = <<>>
    /\ response' = NoResponse
    /\ result' = NoResult
    /\ UNCHANGED <<db, last, validatorVars, connectorVars, reconcilerVars, writerVars>>

NextFetch ==
    \/ FetchStart
    \/ FetchTry
    \/ FetchReturn

FetchSpec == Init /\ [][NextFetch]_vars

(***************************************************************************)
(* The validator on its own: any candidate, one call.                      *)
(***************************************************************************)
InitValidator ==
    /\ db = InitStore(TRUE)
    /\ last = NoCall
    /\ FetchIdle
    /\ candidate \in Candidates
    /\ verdict = NoVerdict
    /\ ConnectorIdle
    /\ ReconcilerIdle
    /\ WritersIdle

Validate ==
    /\ verdict = NoVerdict
    /\ verdict' = _validate_pdf_content(candidate.pdf_data, candidate.headers,
                                         candidate.pdf_url)
    /\ UNCHANGED <<db, last, fetchVars, candidate, connectorVars, reconcilerVars, writerVars>>

NextValidator == Validate

ValidatorSpec == InitValidator /\ [][NextValidator]_vars

(***************************************************************************)
(* Deletions and id allocation: delete_item on any row of items, with the  *)
(* attachment writer and the collection move beside it.                    *)
(***************************************************************************)
\* Every key a row of items holds: parents, attachments and notes alike.
AnyItemKeys == {"K1", "K2", "K3", "K4"}

DeleteAnyItem ==
    \E item_key \in AnyItemKeys, env \in Envs :
        Called("delete_item", delete_item(db, item_key, env))

NextAlloc ==
    \/ DeleteAnyItem
    \/ AttachPdf
    \/ MoveItemToCollection

AllocSpec == Init /\ [][NextAlloc]_vars

(***************************************************************************)
(* The connector's reads: get_version, get_collections,                    *)
(* save_item_to_zotero, get_item, get_library_items, search_items,         *)
(* _get_collection_tree_view_id; and the four point writes with the files  *)
(* they open.                                                              *)
(*                                                                         *)
(* Files are numbers: 0 is the live store file, every other number a       *)
(* snapshot file in the temporary directory.                               *)
(***************************************************************************)
MaxSnapshots == 2

\* self._zotero_db_path
Live == 0

Access(file, how) == [ file |-> file, how |-> how ]

\* What the file system does to a snapshot scan.
FsOutcomes == {"ok", "copy_fails", "query_fails", "unlink_fails"}

\* tempfile.NamedTemporaryFile(suffix='.sqlite', delete=False): a name no file has.
NewTempName(tmp) == Max(tmp) + 1

\* The snapshot scan of _read_collections_from_db and _get_collection_tree_view_id:
\* the path check, the temporary file, shutil.copy2 inside the `with`, then
\* connect / query / `finally: unlink` in the inner try.  A copy2 that raises leaves
\* the `with` before the inner try is entered; an unlink that raises is passed over.
SnapshotScan(tmp, env, fs, rows) ==
    LET temp_db_path == NewTempName(tmp)
    IN IF ~db_exists(env)
       THEN [ rows |-> {}, opened |-> <<>>, tmp_files |-> tmp ]
       ELSE IF fs = "copy_fails"
       THEN [ rows |-> {}, opened |-> << Access(Live, "copy") >>,
              tmp_files |-> tmp \cup {temp_db_path} ]
       ELSE [ rows |-> IF fs = "query_fails" THEN {} ELSE rows,
              opened |-> << Access(Live, "copy"), Access(temp_db_path, "connect") >>,
              tmp_files |-> IF fs = "unlink_fails" THEN tmp \cup {temp_db_path} ELSE tmp ]

\* A connector call's outcome: what it returns, the files it opened, the snapshot
\* files it leaves, the store as it leaves it.
Outcome(s, r, files, tmp) == [ db |-> s, ret |-> r, opened |-> files, tmp_files |-> tmp ]

Failure(error) == [ NoReturn EXCEPT !.error = error ]

\* get_version: the second ping's answer decides the string.
PingTexts == {"Zotero is running", "other", "not 200"}
get_version(s, tmp, env, ping_text) ==
    IF ~is_running(env) THEN Outcome(s, NoReturn, <<>>, tmp)
    ELSE IF ping_text = "not 200" THEN Outcome(s, NoReturn, <<>>, tmp)
    ELSE Outcome(s, [ NoReturn EXCEPT
                        !.success = TRUE,
                        !.version = IF ping_text = "Zotero is running"
                                    THEN "Zotero Desktop (Unknown version)"
                                    ELSE "unknown" ],
                 <<>>, tmp)

\* SELECT ... FROM collections c ORDER BY c.collectionName
SelectCollectionKeys == { c.collectionKey : c \in collections }

\* What the local API endpoints answer when the snapshot read returned nothing.
ApiAnswers == { {}, {"C1"} }

_read_collections_from_db(tmp, env, fs) == SnapshotScan(tmp, env, fs, SelectCollectionKeys)

get_collections(s, tmp, env, fs, api) ==
    LET scan == _read_collections_from_db(tmp, env, fs)
    IN IF ~is_running(env) THEN Outcome(s, NoReturn, <<>>, tmp)
       ELSE IF scan.rows # {}
       THEN Outcome(s, [ NoReturn EXCEPT !.success = TRUE, !.items = scan.rows ],
                    scan.opened, scan.tmp_files)
       ELSE Outcome(s, [ NoReturn EXCEPT !.success = api # {}, !.items = api ],
                    scan.opened, scan.tmp_files)

\* tree_view_id = f"C{collection_id}"
TreeViewId(collection_id) == IF collection_id = 1 THEN "C1" ELSE "C"

_get_collection_tree_view_id(s, tmp, collection_key, env, fs) ==
    LET scan == SnapshotScan(tmp, env, fs,
                             { TreeViewId(c) : c \in SelectCollectionID(collection_key) })
    IN Outcome(s, [ NoReturn EXCEPT !.success = scan.rows # {}, !.items = scan.rows ],
               scan.opened, scan.tmp_files)

\* save_item_to_zotero: the item goes to the application's connector endpoint; this
\* system opens no file for it.
save_item_to_zotero(s, tmp, env, saved) ==
    IF ~is_running(env)
    THEN Outcome(s, Failure("Zotero is not running, please start the Zotero desktop app"),
                 <<>>, tmp)
    ELSE Outcome(s, [ NoReturn EXCEPT !.success = saved ], <<>>, tmp)

\* The `creators` table.
creators ==
    { [creatorID |-> 1, lastName |-> "Alpha"],
      [creatorID |-> 2, lastName |-> "Beta"] }

LastName(creator_id) == (CHOOSE c \in creators : c.creatorID = creator_id).lastName

\* The itemCreators rows the creators query of _get_item_from_database joins:
\* ... JOIN itemCreators ic ON c.creatorID = ic.creatorID ... WHERE ic.itemID = ?
SelectCreatorRows(s, item_key) ==
    { ic \in s.itemCreators : ic.itemID \in SelectItemID(s, item_key) }

\* The orders in which a SELECT without ORDER BY can return the rows of S: the
\* engine returns them in the order of whichever table or index it scans.
RowOrders(S) ==
    { q \in SeqsUpTo(S, Cardinality(S)) : Len(q) = Cardinality(S) /\ Range(q) = S }

\* `for creator_row in cursor: creators.append(...)`
CreatorList(row_order) == [ i \in 1..Len(row_order) |-> LastName(row_order[i].creatorID) ]

\* The point read of one table: sqlite3.connect(str(db_path)).
ConnectLive == << Access(Live, "connect") >>

\* get_item with include_attachments: _get_item_from_database, then
\* _get_item_attachments, _get_item_notes and _get_item_tags, each with its own
\* connection to the store file.
get_item(s, tmp, item_key, env, row_order) ==
    IF ~is_running(env) THEN Outcome(s, Failure("Zotero is not running"), <<>>, tmp)
    ELSE IF ~db_exists(env) THEN Outcome(s, Failure("Item not found"), <<>>, tmp)
    ELSE IF SelectItemID(s, item_key) = {}
    THEN Outcome(s, Failure("Item not found"), ConnectLive, tmp)
    ELSE Outcome(s, [ NoReturn EXCEPT
                        !.success = TRUE,
                        !.items = {item_key},
                        !.creators = CreatorList(row_order) ],
                 ConnectLive \o ConnectLive \o ConnectLive \o ConnectLive, tmp)

\* _get_items_from_database: ... WHERE i.libraryID = 1 AND i.itemTypeID NOT IN (2, 14)
SelectLibraryItems(s) == { i.key : i \in { r \in s.items : r.itemTypeID \notin {2, 14} } }

get_library_items(s, tmp, env) ==
    IF ~is_running(env) THEN Outcome(s, Failure("Zotero is not running"), <<>>, tmp)
    ELSE IF ~db_exists(env) THEN Outcome(s, [ NoReturn EXCEPT !.success = TRUE ], <<>>, tmp)
    ELSE Outcome(s, [ NoReturn EXCEPT !.success = TRUE, !.items = SelectLibraryItems(s) ],
                 ConnectLive, tmp)

\* _search_items_in_database: ... f.fieldName = 'title' AND v.value LIKE ?
SelectMatchingItems(s, query) ==
    { i.key : i \in { r \in s.items :
        \E d \in s.itemData, v \in s.itemDataValues, f \in s.fields :
            /\ d.itemID = r.itemID /\ d.valueID = v.valueID /\ d.fieldID = f.fieldID
            /\ f.fieldName = "title" /\ v.value = query } }

\* The title query is run on the cursor the loop iterates, so the loop ends with the
\* first row: the result holds `first`, one of the matching rows, or nothing.
search_items(s, tmp, query, env, first) ==
    IF ~is_running(env) THEN Outcome(s, Failure("Zotero is not running"), <<>>, tmp)
    ELSE IF ~db_exists(env) THEN Outcome(s, [ NoReturn EXCEPT !.success = TRUE ], <<>>, tmp)
    ELSE Outcome(s, [ NoReturn EXCEPT
                        !.success = TRUE,
                        !.items = SelectMatchingItems(s, query) \cap {first} ],
                 ConnectLive, tmp)

\* A point write as the connector sees it: the store file is opened once the running
\* check and the path check have passed.
PointWrite(r, tmp, env) ==
    Outcome(r.db, [ NoReturn EXCEPT !.success = r.success, !.error = r.error ],
            IF is_running(env) /\ db_exists(env) THEN ConnectLive ELSE <<>>, tmp)

\* The inputs of the connector's calls.
ConnectorUpdates == { << <<"title", "B">> >> }
ConnectorTags == { << "t2" >> }
Queries == {"A", "B"}

Returned(op, env, fs, out) ==
    /\ call' = [ op |-> op, env |-> env, fs |-> fs ]
    /\ db' = out.db
    /\ ret' = out.ret
    /\ opened' = out.opened
    /\ tmp_files' = out.tmp_files
    /\ UNCHANGED <<last, fetchVars, validatorVars, reconcilerVars, writerVars>>

GetVersion ==
    \E env \in Envs, ping_text \in PingTexts :
        Returned("get_version", env, "ok", get_version(db, tmp_files, env, ping_text))

GetCollections ==
    /\ Cardinality(tmp_files) < MaxSnapshots
    /\ \E env \in Envs, fs \in FsOutcomes, api \in ApiAnswers :
        Returned("get_collections", env, fs, get_collections(db, tmp_files, env, fs, api))

GetCollectionTreeViewId ==
    /\ Cardinality(tmp_files) < MaxSnapshots
    /\ \E collection_key \in CollectionKeys, env \in Envs, fs \in FsOutcomes :
        Returned("_get_collection_tree_view_id", env, fs,
                 _get_collection_tree_view_id(db, tmp_files, collection_key, env, fs))

SaveItemToZotero ==
    \E env \in Envs, saved \in BOOLEAN :
        Returned("save_item_to_zotero", env, "ok",
                 save_item_to_zotero(db, tmp_files, env, saved))

GetItem ==
    \E item_key \in StoreKeys, env \in Envs :
        \E row_order \in RowOrders(SelectCreatorRows(db, item_key)) :
            Returned("get_item", env, "ok", get_item(db, tmp_files, item_key, env, row_order))

GetLibraryItems ==
    \E env \in Envs :
        Returned("get_library_items", env, "ok", get_library_items(db, tmp_files, env))

SearchItems ==
    \E query \in Queries, env \in Envs, first \in AnyItemKeys :
        Returned("search_items", env, "ok", search_items(db, tmp_files, query, env, first))

ConnectorUpdateItem ==
    \E item_key \in StoreKeys, updates \in ConnectorUpdates, env \in Envs :
        Returned("update_item", env, "ok",
                 PointWrite(update_item(db, item_key, updates, env), tmp_files, env))

ConnectorUpdateItemTags ==
    \E item_key \in StoreKeys, tags \in ConnectorTags, env \in Envs :
        Returned("update_item_tags", env, "ok",
                 PointWrite(update_item_tags(db, item_key, tags, env), tmp_files, env))

ConnectorDeleteItem ==
    \E item_key \in StoreKeys, env \in Envs :
        Returned("delete_item", env, "ok",
                 PointWrite(delete_item(db, item_key, env), tmp_files, env))

ConnectorMoveItemToCollection ==
    \E item_key \in StoreKeys, collection_key \in CollectionKeys, env \in Envs :
        Returned("move_item_to_collection", env, "ok",
                 PointWrite(move_item_to_collection(db, item_key, collection_key, env),
                            tmp_files, env))

NextConnector ==
    \/ GetVersion
    \/ GetCollections
    \/ GetCollectionTreeViewId
    \/ SaveItemToZotero
    \/ GetItem
    \/ GetLibraryItems
    \/ SearchItems
    \/ ConnectorUpdateItem
    \/ ConnectorUpdateItemTags
    \/ ConnectorDeleteItem
    \/ ConnectorMoveItemToCollection

ConnectorSpec == Init /\ [][NextConnector]_vars

(***************************************************************************)
(* The metadata reconciler: validate_item_with_arxiv, _compare_metadata,   *)
(* validate_and_update_item.                                               *)
(***************************************************************************)
\* The fields the reconciler reads and writes, as the application's catalogue has them.
reconciler_fields ==
    { [fieldID |-> 1, fieldName |-> "title"],
      [fieldID |-> 2, fieldName |-> "date"],
      [fieldID |-> 3, fieldName |-> "abstractNote"],
      [fieldID |-> 4, fieldName |-> "DOI"] }

\* One article, K1, by one author, with no field value yet.
BareStore ==
    [ fields |-> reconciler_fields,
      items |-> { [itemID |-> 1, key |-> "K1", itemTypeID |-> 1] },
      itemDataValues |-> {},
      itemData |-> {},
      tags |-> {},
      itemTags |-> {},
      itemCreators |-> { [itemID |-> 1, creatorID |-> 1, orderIndex |-> 0] },
      collectionItems |-> {},
      itemAttachments |-> {},
      itemNotes |-> {} ]

\* The item given a value for a field; an item has no row for a field it lacks.
WithField(s, field_name, value) ==
    IF value = "" THEN s
    ELSE InsertValue(s, 1, CHOOSE f \in SelectFieldID(s, field_name) : TRUE, value)

ReconcilerStore(title, abstract, date, doi) ==
    WithField(WithField(WithField(WithField(BareStore, "title", title),
                                  "abstractNote", abstract), "date", date), "DOI", doi)

StoredTitles == {"Old Title", "old title", " Old Title "}
StoredAbstracts == {"", "An  abstract"}
StoredDates == {"", "2017/06/12 00:00:00"}
StoredDois == {"", "10.48550/arXiv.1706.03762", "10.1038/nature12345"}

ReconcilerStores ==
    { ReconcilerStore(title, abstract, date, doi) :
        title \in StoredTitles, abstract \in StoredAbstracts,
        date \in StoredDates, doi \in StoredDois }

\* What ArxivAPIExtractor.extract_metadata answers: an error, or the entry's title
\* (stripped, whitespace collapsed), authors, abstract, date (%Y/%m/%d) and journal DOI.
ArxivTitles == {"Old Title", "New Title"}
ArxivAbstracts == {"An abstract", "Other abstract"}
ArxivDates == {"2017/06/12", "2017/12/05"}
ArxivAuthors == { <<"Alpha">>, <<"Gamma">> }
ArxivDois == {"", "10.5555/3295222"}

ArxivAnswers ==
    { [ NoMetadata EXCEPT !.error = "No entry found in arXiv response" ] }
    \cup { [ error |-> "", title |-> title, abstract |-> abstract, date |-> date,
             authors |-> authors, doi |-> doi ] :
           title \in ArxivTitles, abstract \in ArxivAbstracts, date \in ArxivDates,
           authors \in ArxivAuthors, doi \in ArxivDois }

\* item[field_row["fieldName"]] of _get_item_from_database, read with .get(name, "").
ItemField(s, item_key, field_name) ==
    LET item_ids == SelectItemID(s, item_key)
        field_ids == SelectFieldID(s, field_name)
        value_ids == { d.valueID : d \in { r \in s.itemData :
                          r.itemID \in item_ids /\ r.fieldID \in field_ids } }
        found == { v.value : v \in { w \in s.itemDataValues : w.valueID \in value_ids } }
    IN IF found = {} THEN "" ELSE CHOOSE v \in found : TRUE

\* str.strip() on the strings of the model.
Strip(str) ==
    CASE str = " Old Title " -> "Old Title"
      [] OTHER -> str

\* The characters \s matches that the model's strings hold.
Whitespace == { " ", "\t", "\n" }

\* abstract.strip(): the positions of the first and the last character that is
\* not whitespace (beyond the string when there is none).
RECURSIVE StripStart(_, _)
StripStart(str, i) ==
    IF i > Len(str) \/ SubSeq(str, i, i) \notin Whitespace THEN i ELSE StripStart(str, i + 1)

RECURSIVE StripEnd(_, _)
StripEnd(str, i) ==
    IF i < 1 \/ SubSeq(str, i, i) \notin Whitespace THEN i ELSE StripEnd(str, i - 1)

\* re.sub(r'\s+', ' ', ...) on the characters lo..hi of str: a character that is
\* not whitespace stays, the first character of a run of whitespace becomes one
\* space and the rest of the run goes.
RECURSIVE CollapseRuns(_, _, _)
CollapseRuns(str, lo, hi) ==
    IF lo > hi THEN ""
    ELSE IF lo = hi
    THEN (IF SubSeq(str, lo, lo) \notin Whitespace THEN SubSeq(str, lo, lo)
          ELSE IF lo > 1 /\ SubSeq(str, lo - 1, lo - 1) \notin Whitespace THEN " "
          ELSE "")
    ELSE LET mid == (lo + hi) \div 2
         IN CollapseRuns(str, lo, mid) \o CollapseRuns(str, mid + 1, hi)

\* A slip that only strips the abstract's ends.
_normalize_abstract_strip_only(abstract) == Strip(abstract)

\* re.sub(r'\s+', ' ', abstract.strip()), "" for an empty abstract.
_normalize_abstract(abstract) ==
    CollapseRuns(abstract, StripStart(abstract, 1), StripEnd(abstract, Len(abstract)))

\* The number of characters of an abstract a reported entry keeps.
DisplayLength == 200

\* value[:200] + "..." if len(value) > 200 else value
Truncated(value) ==
    IF Len(value) > DisplayLength THEN SubSeq(value, 1, DisplayLength) \o "..." ELSE value

\* date.strip(), cut to its first 10 characters.
_normalize_date(date) ==
    CASE date = "2017/06/12 00:00:00" -> "2017/06/12"
      [] OTHER -> Strip(date)

\* A slip that takes the creators of every type.
RECURSIVE _extract_last_names_any_type(_)
_extract_last_names_any_type(item_creators) ==
    IF item_creators = <<>> THEN <<>>
    ELSE << Head(item_creators).lastName >> \o _extract_last_names_any_type(Tail(item_creators))

\* The stripped, non-empty last names of the creators of type author or coauthor.
RECURSIVE _extract_last_names(_)
_extract_last_names(item_creators) ==
    IF item_creators = <<>> THEN <<>>
    ELSE LET creator == Head(item_creators)
             last_name == Strip(creator.lastName)
         IN (IF creator.creatorType \in {"author", "coauthor"} /\ last_name # ""
             THEN << last_name >> ELSE <<>>)
            \o _extract_last_names(Tail(item_creators))

\* ", ".join(names)
RECURSIVE Join(_)
Join(names) ==
    IF names = <<>> THEN ""
    ELSE IF Len(names) = 1 THEN names[1]
    ELSE names[1] \o ", " \o Join(Tail(names))

\* re.search(r'arxiv[\.:]*(\d+\.\d+)', doi, re.IGNORECASE) for a DOI whose lower
\* case contains "10.48550/arxiv" or "arxiv."; None for any other DOI.
_get_arxiv_url_from_doi(doi) ==
    IF doi = "" THEN None
    ELSE IF Lower(doi) = "10.48550/arxiv.1706.03762" THEN "https://arxiv.org/abs/1706.03762"
    ELSE None

Difference(field, zotero_value, arxiv_value) ==
    [ field |-> field, Zotero |-> zotero_value, arXiv |-> arxiv_value ]

\* A slip that compares the titles letter for letter.
TitlesDiffer_exact(title_zotero, title_arxiv) == title_zotero # title_arxiv

\* title_zotero.lower() != title_arxiv.lower()
TitlesDiffer(title_zotero, title_arxiv) == Lower(title_zotero) # Lower(title_arxiv)

\* _compare_metadata: the dict of differences as the set of its entries.
_compare_metadata(zotero, arxiv) ==
    LET title_zotero == Strip(zotero.title)
        title_arxiv == Strip(arxiv.title)
        abstract_zotero == _normalize_abstract(zotero.abstract)
        abstract_arxiv == _normalize_abstract(arxiv.abstract)
        date_zotero == _normalize_date(zotero.date)
        date_arxiv == _normalize_date(arxiv.date)
        zotero_authors == _extract_last_names(zotero.creators)
        arxiv_authors == arxiv.authors
        doi_zotero == Strip(zotero.doi)
        doi_arxiv == Strip(arxiv.doi)
    IN (IF TitlesDiffer(title_zotero, title_arxiv)
        THEN { Difference("title", title_zotero, title_arxiv) } ELSE {})
       \cup
       (IF abstract_zotero # abstract_arxiv
        THEN { Difference("abstract", Truncated(abstract_zotero), Truncated(abstract_arxiv)) }
        ELSE {})
       \cup
       (IF date_zotero # "" /\ date_arxiv # "" /\ date_zotero # date_arxiv
        THEN { Difference("date", date_zotero, date_arxiv) } ELSE {})
       \cup
       (IF /\ zotero_authors # <<>>
           /\ arxiv_authors # <<>>
           /\ Range(zotero_authors) # Range(arxiv_authors)
        THEN { Difference("authors", Join(zotero_authors), Join(arxiv_authors)) } ELSE {})
       \cup
       (IF doi_zotero # "" /\ doi_arxiv # "" /\ doi_zotero # doi_arxiv
        THEN { Difference("doi", doi_zotero, doi_arxiv) } ELSE {})

Keys(differences) == { d.field : d \in differences }

\* What a reconciler call gives back: the store, the extractor's answer when it was
\* asked, and the returned dict.
Reconciled(s, metadata, v) ==
    [ db |-> s, arxiv_metadata |-> metadata,
      validation |-> [ v EXCEPT !.returned = TRUE ] ]

ValidationFailure(item_key, error) ==
    [ NoValidation EXCEPT !.item_key = item_key, !.error = error ]

\* item["creators"] of _get_item_from_database; the creator links of the model are
\* all of type author.
CreatorDicts(row_order) ==
    [ i \in 1..Len(row_order) |->
        [ lastName |-> LastName(row_order[i].creatorID), creatorType |-> "author" ] ]

\* validate_item_with_arxiv: get_item, the DOI, the arXiv URL, the extractor, the
\* comparison.  `row_order` is the order in which the creators query returned its rows.
validate_item_with_arxiv(s, item_key, env, row_order, metadata) ==
    LET zotero_metadata ==
            [ title |-> ItemField(s, item_key, "title"),
              abstract |-> ItemField(s, item_key, "abstractNote"),
              date |-> ItemField(s, item_key, "date"),
              doi |-> ItemField(s, item_key, "DOI"),
              creators |-> CreatorDicts(row_order) ]
        differences == _compare_metadata(zotero_metadata, metadata)
    IN IF ~is_running(env)
       THEN Reconciled(s, NoMetadata, ValidationFailure(item_key, "Zotero is not running"))
       ELSE IF ~db_exists(env) \/ SelectItemID(s, item_key) = {}
       THEN Reconciled(s, NoMetadata,
                       ValidationFailure(item_key, "Could not get item: Item not found"))
       ELSE IF zotero_metadata.doi = ""
       THEN Reconciled(s, NoMetadata,
               [ ValidationFailure(item_key, "No DOI found in this item")
                   EXCEPT !.zotero_metadata = zotero_metadata ])
       ELSE IF _get_arxiv_url_from_doi(zotero_metadata.doi) = None
       THEN Reconciled(s, NoMetadata,
                       ValidationFailure(item_key, "Could not find arXiv URL from DOI"))
       ELSE IF metadata.error # ""
       THEN Reconciled(s, metadata,
                       ValidationFailure(item_key, "arXiv API query failed"))
       ELSE Reconciled(s, metadata,
               [ NoValidation EXCEPT
                   !.success = TRUE,
                   !.item_key = item_key,
                   !.zotero_metadata = zotero_metadata,
                   !.differences = differences,
                   !.is_match = (differences = {}) ])

\* The `updates` dict validate_and_update_item builds, in insertion order.
Updates(differences, arxiv) ==
    (IF "title" \in Keys(differences) THEN << <<"title", arxiv.title>> >> ELSE <<>>)
    \o (IF "abstract" \in Keys(differences)
        THEN << <<"abstractNote", arxiv.abstract>> >> ELSE <<>>)
    \o (IF "date" \in Keys(differences) THEN << <<"date", arxiv.date>> >> ELSE <<>>)

\* validate_and_update_item after its validation `checked`.
ApplyUpdates(checked, item_key, apply_updates, env) ==
    LET validation_ == checked.validation
        differences == validation_.differences
        updates == Updates(differences, checked.arxiv_metadata)
        update_result == update_item(checked.db, item_key, updates, env)
    IN IF ~validation_.success THEN checked
       ELSE IF differences = {}
       THEN Reconciled(checked.db, checked.arxiv_metadata,
               [ NoValidation EXCEPT
                   !.success = TRUE,
                   !.message = "Item metadata matches arXiv perfectly",
                   !.item_key = item_key,
                   !.is_match = TRUE ])
       ELSE IF apply_updates /\ updates # <<>>
       THEN Reconciled(update_result.db, checked.arxiv_metadata,
               [ validation_ EXCEPT
                   !.update_result = update_result.success,
                   !.updates_applied = updates,
                   !.message = "Applied updates from arXiv" ])
       ELSE checked

\* A slip that applies the updates whatever the caller asked.
validate_and_update_item_forced(s, item_key, apply_updates, env, row_order, metadata) ==
    [ ApplyUpdates(validate_item_with_arxiv(s, item_key, env, row_order, metadata),
                   item_key, TRUE, env)
        EXCEPT !.validation.apply_updates = apply_updates ]

validate_and_update_item(s, item_key, apply_updates, env, row_order, metadata) ==
    [ ApplyUpdates(validate_item_with_arxiv(s, item_key, env, row_order, metadata),
                   item_key, apply_updates, env)
        EXCEPT !.validation.apply_updates = apply_updates ]

ReconcilerKeys == {"K1", "KX"}

\* The answers the extractor can give in a call: it is asked only once the item
\* was read and its DOI gave an arXiv URL.
ExtractorAnswers(s, item_key, env) ==
    IF /\ is_running(env)
       /\ db_exists(env)
       /\ SelectItemID(s, item_key) # {}
       /\ _get_arxiv_url_from_doi(ItemField(s, item_key, "DOI")) # None
    THEN ArxivAnswers
    ELSE { NoMetadata }

InitReconciler ==
    /\ db \in ReconcilerStores
    /\ last = NoCall
    /\ FetchIdle
    /\ candidate = NoCandidate
    /\ verdict = NoVerdict
    /\ ConnectorIdle
    /\ ReconcilerIdle
    /\ WritersIdle

Validated(op, r) ==
    /\ db' = r.db
    /\ arxiv_metadata' = r.arxiv_metadata
    /\ validation' = r.validation
    /\ last' = [op |-> op, success |-> r.validation.success]
    /\ UNCHANGED <<fetchVars, validatorVars, connectorVars, writerVars>>

ValidateItemWithArxiv ==
    \E item_key \in ReconcilerKeys, env \in Envs :
        \E row_order \in RowOrders(SelectCreatorRows(db, item_key)),
           metadata \in ExtractorAnswers(db, item_key, env) :
            Validated("validate_item_with_arxiv",
                      validate_item_with_arxiv(db, item_key, env, row_order, metadata))

ValidateAndUpdateItem ==
    \E item_key \in ReconcilerKeys, apply_updates \in BOOLEAN, env \in Envs :
        \E row_order \in RowOrders(SelectCreatorRows(db, item_key)),
           metadata \in ExtractorAnswers(db, item_key, env) :
            Validated("validate_and_update_item",
                      validate_and_update_item(db, item_key, apply_updates, env,
                                               row_order, metadata))

NextReconciler ==
    \/ ValidateItemWithArxiv
    \/ ValidateAndUpdateItem

ReconcilerSpec == InitReconciler /\ [][NextReconciler]_vars

(***************************************************************************)
(* The comparison alone, on metadata the reconciler's store cannot hold:   *)
(* abstracts longer than an entry keeps, creators that are not authors,    *)
(* empty author lists.                                                     *)
(***************************************************************************)
RECURSIVE Repeated(_, _)
Repeated(str, n) == IF n = 0 THEN "" ELSE str \o Repeated(str, n - 1)

\* Abstracts of exactly the kept length and longer, and ones that differ only
\* in their whitespace or only beyond the kept length.
CompareAbstracts ==
    { "", "An abstract", " An  abstract\n", "Other abstract",
      Repeated("0123456789", 20),
      Repeated("0123456789", 21),
      Repeated("0123456789", 21) \o "\t tail" }

CompareCreators ==
    LET author(name) == [ lastName |-> name, creatorType |-> "author" ]
        editor(name) == [ lastName |-> name, creatorType |-> "editor" ]
    IN { <<>>,
         << author("Alpha") >>,
         << author("Alpha"), author("Gamma") >>,
         << author("Gamma"), author("Alpha") >>,
         << author("Alpha"), editor("Gamma") >>,
         << editor("Alpha") >> }

CompareAuthors ==
    { <<>>, <<"Alpha">>, <<"Alpha", "Gamma">>, <<"Gamma", "Alpha">>, <<"Alpha", "Alpha">> }

CompareZotero ==
    { [ title |-> "Old Title", abstract |-> abstract, date |-> "", doi |-> "",
        creators |-> item_creators ] :
      abstract \in CompareAbstracts, item_creators \in CompareCreators }

CompareArxiv ==
    { [ error |-> "", title |-> "Old Title", abstract |-> abstract, date |-> "",
        authors |-> authors, doi |-> "" ] :
      abstract \in CompareAbstracts, authors \in CompareAuthors }

\* The one call of _compare_metadata(zotero, arxiv) of a behaviour.
CompareMetadata ==
    \E zotero \in CompareZotero, arxiv \in CompareArxiv :
        LET differences == _compare_metadata(zotero, arxiv)
        IN /\ ~validation.returned
           /\ arxiv_metadata' = arxiv
           /\ validation' = [ NoValidation EXCEPT !.returned = TRUE,
                                                  !.success = TRUE,
                                                  !.zotero_metadata = zotero,
                                                  !.differences = differences,
                                                  !.is_match = (differences = {}) ]
           /\ last' = [op |-> "_compare_metadata", success |-> TRUE]
           /\ UNCHANGED <<db, fetchVars, validatorVars, connectorVars, writerVars>>

CompareSpec == Init /\ [][CompareMetadata]_vars

(***************************************************************************)
(* The point writes statement by statement: each invocation has its own    *)
(* connection, a cursor.execute is one step, and what a connection wrote   *)
(* is in the store only once it has committed.                             *)
(***************************************************************************)
\* The store as the connection's statements see it.
View(c, s) == IF c.in_txn THEN c.work ELSE s

\* The statements that write: the first one opens the connection's transaction.
WriteStatements ==
    { "update_value", "insert_value", "insert_data", "delete_tags", "insert_tag",
      "insert_item_tag", "delete_creators", "delete_data", "delete_item",
      "insert_collection_item", "insert_attachment_item", "insert_attachment_data",
      "insert_attachment_value", "insert_attachment_row", "insert_creator_stub" }

\* A statement's write, kept in the connection's open transaction; `written`
\* counts the call's writes.
Wrote(c, s) == [ c EXCEPT !.work = s, !.in_txn = TRUE, !.written = @ + 1 ]

\* `return {...}`: the connection goes out of scope, and with it what it had written
\* and not committed.
Return(c, success, error) ==
    [ c EXCEPT !.pc = "done", !.returned = TRUE, !.success = success, !.error = error,
               !.work = NoStore, !.in_txn = FALSE ]

\* A slip that starts the call's statements again when one of them raised.
Raise_retry(c, error) ==
    [ c EXCEPT !.pc = "select_item", !.work = NoStore, !.in_txn = FALSE,
               !.raised = TRUE, !.allocated = {}, !.updated_fields = <<>> ]

\* `except Exception as e: return {"success": False, "error": str(e)}`
Raise(c, error) == [ Return(c, FALSE, error) EXCEPT !.raised = TRUE ]

\* The head of `for field_name, field_value in updates.items()`: names outside
\* field_name_to_id are passed over; after the loop, conn.commit().
RECURSIVE NextField(_)
NextField(c) ==
    IF c.updates = <<>> THEN [ c EXCEPT !.pc = "commit" ]
    ELSE IF Head(c.updates)[1] \notin field_name_to_id
    THEN NextField([ c EXCEPT !.updates = Tail(@) ])
    ELSE [ c EXCEPT !.pc = "select_field" ]

\* The head of `for tag in tags`.
NextTag(c) ==
    IF c.tags = <<>> THEN [ c EXCEPT !.pc = "commit" ] ELSE [ c EXCEPT !.pc = "select_tag" ]

\* updated_fields.append(field_name), and the loop's next turn.
FieldDone(c) ==
    NextField([ c EXCEPT !.updated_fields = Append(@, Head(c.updates)[1]),
                         !.updates = Tail(@) ])

\* What the call returns after conn.commit().
AfterCommit(c) ==
    IF c.op = "update_item" /\ c.updated_fields = <<>>
    THEN Return(c, FALSE, "No fields were updated")
    ELSE Return(c, TRUE, "")

\* The primary key of the table an INSERT adds a row to.
UniqueViolation(c, s) ==
    \/ c.pc \in {"insert_value", "insert_attachment_value"}
       /\ \E v \in s.itemDataValues : v.valueID = c.max_id + 1
    \/ c.pc = "insert_tag" /\ \E r \in s.tags : r.tagID = c.max_id + 1
    \/ c.pc = "insert_attachment_item"
       /\ \E i \in s.items : i.itemID = c.max_item_id + 1 \/ i.key = c.new_item_key

\* The statement sqlite3 cannot prepare: execute() raises OperationalError.
PrepareFails(c) ==
    \/ c.pc = "insert_attachment_row" /\ ~AttachmentInsertPrepares
    \/ c.pc = "insert_creator_stub" /\ ~CreatorStubInsertPrepares

\* One cursor.execute (or conn.commit) of connection c on the store s it sees, with
\* the Python around it up to the next one.
Execute(c, s) ==
    CASE c.pc = "select_item" ->
           IF SelectItemID(s, c.item_key) = {} THEN Return(c, FALSE, "Item not found")
           ELSE LET found == [ c EXCEPT !.item_id = CHOOSE i \in SelectItemID(s, c.item_key) : TRUE ]
                IN IF c.op = "update_item" THEN NextField(found)
                   ELSE IF c.op = "_attach_pdf_to_zotero"
                   THEN [ found EXCEPT !.pc = "select_max_item" ]
                   ELSE IF c.op = "move_item_to_collection"
                   THEN [ found EXCEPT !.pc = "select_collection" ]
                   ELSE [ found EXCEPT !.pc = "delete_tags" ]
      [] c.pc = "select_field" ->
           LET field_row == SelectFieldID(s, Head(c.updates)[1])
           IN IF field_row = {} THEN NextField([ c EXCEPT !.updates = Tail(@) ])
              ELSE [ c EXCEPT !.field_id = CHOOSE f \in field_row : TRUE,
                              !.pc = "select_value" ]
      [] c.pc = "select_value" ->
           IF SelectValueID(s, c.item_id, c.field_id) # {}
           THEN [ c EXCEPT !.pc = "update_value" ]
           ELSE [ c EXCEPT !.pc = "select_max_value" ]
      [] c.pc = "update_value" ->
           LET value_row == SelectValueID(s, c.item_id, c.field_id)
           IN FieldDone(Wrote(c, IF value_row = {} THEN s
                                 ELSE UpdateValue(s, CHOOSE v \in value_row : TRUE,
                                                  Head(c.updates)[2])))
      [] c.pc = "select_max_value" ->
           LET max_value_id == Max({ v.valueID : v \in s.itemDataValues })
           IN [ c EXCEPT !.max_id = max_value_id,
                         !.allocated = @ \cup { [id |-> "valueID", n |-> max_value_id + 1] },
                         !.pc = IF c.op = "_attach_pdf_to_zotero"
                                THEN "insert_attachment_item" ELSE "insert_value" ]
      [] c.pc = "insert_value" ->
           [ Wrote(c, [ s EXCEPT !.itemDataValues = @ \cup
                          { [valueID |-> c.max_id + 1, value |-> Head(c.updates)[2]] } ])
               EXCEPT !.pc = "insert_data" ]
      [] c.pc = "insert_data" ->
           FieldDone(Wrote(c, [ s EXCEPT !.itemData = @ \cup
                                  { [itemID |-> c.item_id, fieldID |-> c.field_id,
                                     valueID |-> c.max_id + 1] } ]))
      [] c.pc = "delete_tags" ->
           IF c.op = "delete_item"
           THEN [ Wrote(c, DeleteItemTags(s, c.item_id)) EXCEPT !.pc = "delete_creators" ]
           ELSE NextTag(Wrote(c, DeleteItemTags(s, c.item_id)))
      [] c.pc = "select_tag" ->
           IF SelectTagID(s, Head(c.tags)) # {}
           THEN [ c EXCEPT !.tag_id = CHOOSE g \in SelectTagID(s, Head(c.tags)) : TRUE,
                           !.pc = "insert_item_tag" ]
           ELSE [ c EXCEPT !.pc = "select_max_tag" ]
      [] c.pc = "select_max_tag" ->
           LET max_tag_id == Max({ r.tagID : r \in s.tags })
           IN [ c EXCEPT !.max_id = max_tag_id,
                         !.allocated = @ \cup { [id |-> "tagID", n |-> max_tag_id + 1] },
                         !.pc = "insert_tag" ]
      [] c.pc = "insert_tag" ->
           [ Wrote(c, [ s EXCEPT !.tags = @ \cup
                          { [tagID |-> c.max_id + 1, name |-> Head(c.tags)] } ])
               EXCEPT !.tag_id = c.max_id + 1,
                      !.pc = "insert_item_tag" ]
      [] c.pc = "insert_item_tag" ->
           NextTag([ Wrote(c, [ s EXCEPT !.itemTags = @ \cup
                                  { [itemID |-> c.item_id, tagID |-> c.tag_id, type |-> 0] } ])
                       EXCEPT !.tags = Tail(@) ])
      [] c.pc = "delete_creators" ->
           [ Wrote(c, DeleteItemCreators(s, c.item_id)) EXCEPT !.pc = "delete_data" ]
      [] c.pc = "delete_data" ->
           [ Wrote(c, DeleteItemData(s, c.item_id)) EXCEPT !.pc = "delete_item" ]
      [] c.pc = "delete_item" ->
           [ Wrote(c, DeleteItemRow(s, c.item_id)) EXCEPT !.pc = "commit" ]
      [] c.pc = "select_collection" ->
           IF SelectCollectionID(c.collection_key) = {}
           THEN Return(c, FALSE, "Collection not found")
           ELSE [ c EXCEPT !.pc = "select_collection_item" ]
      [] c.pc = "select_collection_item" ->
           IF \E r \in s.collectionItems :
                  r.collectionID \in SelectCollectionID(c.collection_key)
                  /\ r.itemID = c.item_id
           THEN Return(c, TRUE, "")
           ELSE [ c EXCEPT !.pc = "insert_collection_item" ]
      [] c.pc = "insert_collection_item" ->
           [ Wrote(c, InsertCollectionItem(s,
                        CHOOSE k \in SelectCollectionID(c.collection_key) : TRUE, c.item_id))
               EXCEPT !.pc = "commit" ]
      [] c.pc = "select_max_item" ->
           [ c EXCEPT !.max_item_id = NextItemID(s) - 1,
                      !.allocated = @ \cup { [id |-> "itemID", n |-> NextItemID(s)] },
                      !.pc = "select_max_value" ]
      [] c.pc = "insert_attachment_item" ->
           [ Wrote(c, InsertAttachmentItem(s, c.max_item_id + 1, c.new_item_key))
               EXCEPT !.pc = "insert_attachment_data" ]
      [] c.pc = "insert_attachment_data" ->
           [ Wrote(c, [ s EXCEPT !.itemData = @ \cup
                          { [itemID |-> c.max_item_id + 1, fieldID |-> 1,
                             valueID |-> c.max_id + 1] } ])
               EXCEPT !.pc = "insert_attachment_value" ]
      [] c.pc = "insert_attachment_value" ->
           [ Wrote(c, [ s EXCEPT !.itemDataValues = @ \cup
                          { [valueID |-> c.max_id + 1, value |-> "A"] } ])
               EXCEPT !.pc = "insert_attachment_row" ]
      [] c.pc = "insert_attachment_row" ->
           [ Wrote(c, InsertAttachmentRow(s, c.max_item_id + 1, c.item_id))
               EXCEPT !.pc = "insert_creator_stub" ]
      [] c.pc = "insert_creator_stub" -> [ Wrote(c, s) EXCEPT !.pc = "commit" ]
      [] c.pc = "commit" -> AfterCommit(c)

\* The calls an invocation can make.
WriterUpdates == { << <<"date", "B">> >>, << <<"title", "B">> >> }
WriterTags == { <<"t2">>, <<"t1", "t2">> }
WriterCalls ==
    { [ NoConn EXCEPT !.op = "update_item", !.item_key = k, !.updates = u ] :
        k \in StoreKeys, u \in WriterUpdates }
    \cup { [ NoConn EXCEPT !.op = "update_item_tags", !.item_key = k, !.tags = g ] :
             k \in StoreKeys, g \in WriterTags }
    \cup { [ NoConn EXCEPT !.op = "delete_item", !.item_key = k ] : k \in StoreKeys }
    \cup { [ NoConn EXCEPT !.op = "move_item_to_collection", !.item_key = k,
                           !.collection_key = "C1" ] : k \in StoreKeys }
    \cup { [ NoConn EXCEPT !.op = "_attach_pdf_to_zotero", !.item_key = k,
                           !.new_item_key = n ] : k \in StoreKeys, n \in {"N1", "K2"} }

\* Another connection's transaction holds the store's write lock.
LockedByOther(w) == \E o \in Writers \ {w} : conns[o].in_txn

WritersFrame ==
    UNCHANGED <<last, fetchVars, validatorVars, connectorVars, reconcilerVars>>

\* A call up to its sqlite3.connect: the running check and the path check.
Invoke(w) ==
    /\ conns[w].pc = "idle"
    /\ \E c \in WriterCalls, env \in Envs :
         conns' = [ conns EXCEPT ![w] =
                      IF ~is_running(env)
                      THEN Return(c, FALSE, IF c.op = "_attach_pdf_to_zotero"
                                            THEN "Zotero not running"
                                            ELSE "Zotero is not running")
                      ELSE IF ~db_exists(env)
                      THEN Return(c, FALSE, "Zotero database not found")
                      ELSE [ c EXCEPT !.pc = "select_item" ] ]
    /\ UNCHANGED db
    /\ WritersFrame

\* A slip in which conn.commit() does not reach the store.
StoreAfter_commit_lost(c, s) == s

\* The store after connection c's statement: conn.commit() makes the
\* transaction's writes the store's.
StoreAfter(c, s) == IF c.pc = "commit" /\ c.in_txn THEN c.work ELSE s

\* The connection's next statement runs; a write waits while another connection's
\* transaction is open, and an INSERT of a key the table holds raises.
ExecuteStatement(w) ==
    LET c == conns[w]
        s == View(c, db)
    IN /\ c.pc \notin {"idle", "done"}
       /\ c.pc \in WriteStatements \cup {"commit"} => ~LockedByOther(w)
       /\ conns' = [ conns EXCEPT ![w] =
                       IF UniqueViolation(c, s) THEN Raise(c, "UNIQUE constraint failed")
                       ELSE IF PrepareFails(c) THEN Raise(c, "statement does not prepare")
                       ELSE Execute(c, s) ]
       /\ db' = StoreAfter(c, db)
       /\ WritersFrame

\* A slip that leaves the statements run before the failing one in the store, as
\* a connection in autocommit mode would.
StatementRaises_keeps(w) ==
    /\ conns[w].pc \notin {"idle", "done"}
    /\ conns' = [ conns EXCEPT ![w] = Raise(conns[w], "database is locked") ]
    /\ db' = View(conns[w], db)
    /\ WritersFrame

\* The connection's next statement raises: the store is locked by the owning
\* application or by another connection, or is unavailable.
StatementRaises(w) ==
    /\ conns[w].pc \notin {"idle", "done"}
    /\ conns' = [ conns EXCEPT ![w] = Raise(conns[w], "database is locked") ]
    /\ UNCHANGED db
    /\ WritersFrame

NextWriters ==
    \E w \in Writers :
        \/ Invoke(w)
        \/ ExecuteStatement(w)
        \/ StatementRaises(w)

WritersSpec == Init /\ [][NextWriters]_vars

(***************************************************************************)
(* Properties.                                                             *)
(***************************************************************************)

\* C1: when fetch_pdf obtains a PDF with save_to_zotero enabled, the store afterwards
\* holds exactly one new attachment row, its parentItemID the parent item's internal
\* id and its contentType "application/pdf", and the returned attachment_key is the
\* key of that row's item.
C1_OneAttachmentPerAcquisition ==
    [][ (pc = "loop" /\ pc' = "done" /\ result'.success /\ req.save_to_zotero)
        => LET new == db'.itemAttachments \ db.itemAttachments
           IN /\ Cardinality(new) = 1
              /\ \A a \in new :
                    /\ a.parentItemID \in SelectItemID(db, req.item_key)
                    /\ a.contentType = "application/pdf"
                    /\ \E i \in db'.items :
                          i.itemID = a.itemID /\ i.key = result'.attachment_key ]_vars

\* C2: every buffer fetch_pdf returns as a success has been accepted by
\* _validate_pdf_content (all six rules), given the response it came with.
C2_ReturnedBufferIsValidated ==
    (result.returned /\ result.success)
    => _validate_pdf_content(result.pdf_content, response.headers, response.url).is_valid

\* The seven providers in their default order, as the claim lists them.
DefaultProviders ==
    << "arxiv", "mdpi", "open_access", "scihub", "annas_archive", "libgen", "publisher" >>

DefaultPosition(name) == CHOOSE i \in 1..Len(DefaultProviders) : DefaultProviders[i] = name

C4_SequentialFirstSuccess ==
    /\ Len(invoked) <= Len(sources_order)
    /\ \A i \in 1..Len(invoked) : invoked[i].src = sources_order[i]
    /\ \A i \in 1..Len(invoked) : i < Len(invoked) => ~invoked[i].success
    /\ pc = "loop"
       => /\ Len(invoked) = idx - 1
          /\ \A i \in 1..Len(invoked) : ~invoked[i].success
    /\ (result.returned /\ result.success)
       => /\ invoked # <<>>
          /\ invoked[Len(invoked)].success
          /\ result.pdf_content = response.content
          /\ result.source = SourceLabel(invoked[Len(invoked)].src)
    /\ (result.returned /\ ~result.success /\ sources_order # <<>>)
       => /\ Len(invoked) = Len(sources_order)
          /\ \A i \in 1..Len(invoked) : ~invoked[i].success

\* C4's case: the third provider called is the first to succeed.
C4_Witness ==
    /\ pc = "done"
    /\ result.success
    /\ Len(invoked) = 3
    /\ req.source = "libgen"
    /\ result.source = "MDPI"

\* C5: the diagnostics hold one entry per provider that was tried and failed: k-1
\* entries when the k-th provider is the first to succeed, one per tried provider
\* when all are exhausted.
C5_OneDiagnosticPerFailedAttempt ==
    (result.returned /\ sources_order # <<>>)
    => IF result.success
       THEN Len(result.attempts) = Len(invoked) - 1
       ELSE Len(result.attempts) = Len(result.tried_sources)

\* The six rules of the reference, each true when the rule rejects; `tokens` are the
\* markup tokens rule 4 looks for.
RuleRejects(n, c, tokens) ==
    CASE n = 1 -> c.pdf_data.size < 1024
      [] n = 2 -> /\ c.headers # ""
                  /\ Lower(c.headers) \notin {"application/pdf", "application/x-pdf"}
                  /\ Lower(c.headers) # "application/octet-stream"
      [] n = 3 -> ~c.pdf_data.magic
      [] n = 4 -> c.pdf_data.html \cap tokens # {}
      [] n = 5 -> /\ c.pdf_url \in { "https://www.nature.com/articles/s1.pdf",
                                     "https://WWW.NATURE.COM/articles/s1.pdf" }
                  /\ c.pdf_data.size < 500000
      [] n = 6 -> ~c.pdf_data.eof

RuleReason == << "size", "content_type", "magic", "html", "domain_size", "eof" >>

\* First failing rule decides; accept when none fails.
SixRuleReference(c, tokens) ==
    LET failing == { n \in 1..Len(RuleReason) : RuleRejects(n, c, tokens) }
    IN IF failing = {} THEN Verdict(TRUE, "ok")
       ELSE Verdict(FALSE, RuleReason[CHOOSE n \in failing : \A m \in failing : n <= m])

\* C6 as stated: outcome and reason equal the six-rule reference whose rule 4 looks
\* for <html, <body, <!doctype, <title>.
C6_MatchesReferenceAsStated ==
    verdict # NoVerdict
    => verdict = SixRuleReference(candidate, {"<html", "<body", "<!doctype", "<title>"})

\* C6 amended: outcome and reason equal the six-rule reference whose rule 4 looks for
\* <html, <body, <div, <!doctype, <title>.
C6_MatchesReferenceWithDiv ==
    verdict # NoVerdict
    => verdict = SixRuleReference(candidate,
                                  {"<html", "<body", "<div", "<!doctype", "<title>"})

\* C6's case: a buffer under 1024 bytes that starts with %PDF, rejected for its size.
C6_Witness ==
    /\ verdict = Verdict(FALSE, "size")
    /\ candidate.pdf_data.magic
    /\ candidate.pdf_data.size = 500

\* C7: update_item applied a second time with the same field map leaves the store
\* as the first application left it: same values, no further itemDataValues or
\* itemData row.
C7_UpdateItemIdempotent ==
    \A item_key \in StoreKeys, updates \in UpdateMaps :
        LET once == update_item(db, item_key, updates, "ok")
            twice == update_item(once.db, item_key, updates, "ok")
        IN /\ twice.db = once.db
           /\ twice.success = once.success

\* C7's case: an update_item call has created a value row (the date of an item).
C7_Witness ==
    /\ last.op = "update_item"
    /\ last.success
    /\ \E d \in db.itemData : d.fieldID = 2 /\ d.valueID = 2

\* The tag names an item is linked to.
LinkedTagNames(s, item_id) ==
    { t.name : t \in { r \in s.tags :
                         \E x \in s.itemTags : x.itemID = item_id /\ x.tagID = r.tagID } }

\* C8: after update_item_tags(item, T) the item's itemTags rows link exactly the
\* names of T, every such row points at a tags row, the rows of other items are as
\* before, and a following update_item_tags(item, []) leaves the item no row.
C8_SetTagsFullReplace ==
    \A item_key \in StoreKeys, tags \in TagLists :
        LET r == update_item_tags(db, item_key, tags, "ok")
            cleared == update_item_tags(r.db, item_key, <<>>, "ok")
        IN r.success
           => /\ LinkedTagNames(r.db, r.item_id) = Range(tags)
              /\ \A x \in r.db.itemTags :
                    x.itemID = r.item_id => \E t \in r.db.tags : t.tagID = x.tagID
              /\ { x \in r.db.itemTags : x.itemID # r.item_id }
                 = { x \in db.itemTags : x.itemID # r.item_id }
              /\ cleared.success
              /\ { x \in cleared.db.itemTags : x.itemID = r.item_id } = {}

\* C8's case: update_item_tags has replaced an item's links, one of them to a tag
\* it had to create.
C8_Witness ==
    /\ last.op = "update_item_tags"
    /\ last.success
    /\ LinkedTagNames(db, 1) = {"t2"}
    /\ LinkedTagNames(db, 2) = {"t1"}

\* C9: after a successful delete_item no row of itemTags, itemCreators, itemData or
\* collectionItems refers to the deleted item's internal id.
C9_DeleteLeavesNoOrphans ==
    [][ (last'.op = "delete_item" /\ last'.success)
        => \A i \in db.items \ db'.items :
              /\ \A x \in db'.itemTags : x.itemID # i.itemID
              /\ \A x \in db'.itemCreators : x.itemID # i.itemID
              /\ \A x \in db'.itemData : x.itemID # i.itemID
              /\ \A x \in db'.collectionItems : x.itemID # i.itemID ]_vars

\* C11: item ids are allocated monotonically and never reused: the id the next new
\* item is given (MAX(itemID) + 1) never steps back, so it is never an id a row has
\* held before, deletions included.
C11_ItemIdsNeverReused ==
    [][ /\ NextItemID(db') >= NextItemID(db)
        /\ NextItemID(db') \notin { i.itemID : i \in db.items } ]_vars

\* C10: no itemData, itemCreators, itemTags, collectionItems, itemAttachments or
\* itemNotes row references an item id (parentItemID included) that is not in items.
C10_ReferentialIntegrity ==
    LET ids == { i.itemID : i \in db.items }
    IN /\ \A r \in db.itemData : r.itemID \in ids
       /\ \A r \in db.itemCreators : r.itemID \in ids
       /\ \A r \in db.itemTags : r.itemID \in ids
       /\ \A r \in db.collectionItems : r.itemID \in ids
       /\ \A r \in db.itemAttachments : r.itemID \in ids /\ r.parentItemID \in ids
       /\ \A r \in db.itemNotes : r.itemID \in ids /\ r.parentItemID \in ids

\* The item's creator rows in the order they were linked (ascending orderIndex).
LinkOrder(s, item_key) ==
    CHOOSE q \in RowOrders(SelectCreatorRows(s, item_key)) :
        \A i, j \in 1..Len(q) : i < j => q[i].orderIndex < q[j].orderIndex

\* C12: get_item returns the item's creators in exactly the order in which they were
\* linked to the item.
C12_CreatorsInLinkOrder ==
    (call.op = "get_item" /\ ret.success)
    => \A item_key \in ret.items : ret.creators = CreatorList(LinkOrder(db, item_key))

\* The operations the claim lists as gated on is_running.
GatedOps ==
    { "get_version", "get_collections", "save_item_to_zotero", "get_item", "update_item",
      "update_item_tags", "delete_item", "move_item_to_collection" }

\* C16: when the application is not running, every gated connector operation returns
\* its failure or empty result, opens no file and leaves the store and the temporary
\* directory as they were.
C16_NotRunningTouchesNothing ==
    [][ (call'.env = "not_running" /\ call'.op \in GatedOps)
        => /\ db' = db
           /\ opened' = <<>>
           /\ tmp_files' = tmp_files
           /\ ~ret'.success
           /\ ret'.version = None
           /\ ret'.items = {}
           /\ ret'.creators = <<>> ]_vars

\* C16's case: get_collections called on a changed store while the application is
\* not running.
C16_Witness ==
    /\ call.op = "get_collections"
    /\ call.env = "not_running"
    /\ ret = NoReturn
    /\ opened = <<>>
    /\ "K1" \notin { i.key : i \in db.items }

\* The operations that scan many rows.
BulkScans == { "get_library_items", "search_items", "get_collections" }

\* C17: a bulk scan never connects to the live store file; the live file is at most
\* copied, and the scan reads the copy.
C17_BulkScansReadSnapshot ==
    call.op \in BulkScans
    => \A i \in 1..Len(opened) : opened[i].file = Live => opened[i].how = "copy"

\* The operations that make a snapshot copy.
SnapshotOps == { "get_collections", "_get_collection_tree_view_id" }

\* C18: no snapshot file an operation created exists after it returns, on success
\* and on every error path.
C18_SnapshotAlwaysDeleted ==
    [][ call'.op \in SnapshotOps => tmp_files' \subseteq tmp_files ]_vars

\* The 'title' entries of a returned dict of differences.
TitleEntries(differences) == { d \in differences : d.field = "title" }

\* C13 (as stated): _compare_metadata reports a title difference exactly when the
\* stored and the authoritative title differ after trimming and case-folding, and
\* the entry's first element carries the stored value, its second the
\* authoritative value.
C13_TitleEntryCarriesStoredValue ==
    [][ validation'.success =>
          LET stored == ItemField(db, validation'.item_key, "title")
              authoritative == arxiv_metadata'.title
          IN TitleEntries(validation'.differences) =
                IF Lower(Strip(stored)) # Lower(Strip(authoritative))
                THEN { Difference("title", stored, authoritative) }
                ELSE {} ]_vars

\* C13 (amended): a title difference is reported exactly when the titles differ
\* after trimming and lower-casing, and the entry's first element carries the
\* stored title trimmed of its surrounding whitespace, its second the
\* authoritative title trimmed likewise.
C13_TitleEntryCarriesTrimmedValue ==
    [][ validation'.success =>
          LET stored == ItemField(db, validation'.item_key, "title")
              authoritative == arxiv_metadata'.title
          IN TitleEntries(validation'.differences) =
                IF Lower(Strip(stored)) # Lower(Strip(authoritative))
                THEN { Difference("title", Strip(stored), Strip(authoritative)) }
                ELSE {} ]_vars

\* C13 witness: a validation of an item whose stored title has surrounding
\* whitespace returned a title entry, Old Title against New Title.
C13_Witness ==
    /\ validation.success
    /\ validation.zotero_metadata.title = " Old Title "
    /\ Difference("title", "Old Title", "New Title") \in validation.differences

\* The store's field that a key of the differences names.
StoreField(key) ==
    CASE key = "title" -> "title"
      [] key = "abstract" -> "abstractNote"
      [] key = "date" -> "date"
      [] key = "doi" -> "DOI"

\* The authoritative source's value for a key of the differences.
Authoritative(metadata, key) ==
    CASE key = "title" -> metadata.title
      [] key = "abstract" -> metadata.abstract
      [] key = "date" -> metadata.date
      [] key = "doi" -> metadata.doi

\* C14: validate_and_update_item with apply_updates true pushes every diffed field
\* except authors (title, abstract, date, DOI) into the store with the authoritative
\* value, and never writes authors.
C14_EveryDiffedFieldPushed ==
    [][ /\ last'.op = "validate_and_update_item"
        /\ validation'.success
        /\ validation'.apply_updates
        =>
        /\ \A key \in Keys(validation'.differences) \ {"authors"} :
               ItemField(db', validation'.item_key, StoreField(key))
                   = Authoritative(arxiv_metadata', key)
        /\ db'.itemCreators = db.itemCreators ]_vars

\* C15: validate_and_update_item changes no table of the store when the diff is
\* empty, which it reports as a match, and none when apply_updates is false.
C15_NoDiffOrNoApplyNoWrite ==
    [][ last'.op = "validate_and_update_item" /\ validation'.success
        =>
        /\ validation'.differences = {}
               => db' = db /\ validation'.is_match
                  /\ validation'.message = "Item metadata matches arXiv perfectly"
        /\ ~validation'.apply_updates => db' = db ]_vars

\* C15 witness: on a store an earlier call has updated, validate_and_update_item
\* without apply_updates returned differences and applied nothing.
C15_Witness ==
    /\ last.op = "validate_and_update_item"
    /\ validation.success
    /\ ~validation.apply_updates
    /\ validation.differences # {}
    /\ validation.updates_applied = <<>>
    /\ db \notin ReconcilerStores

PointWriteResults(s, item_key, env) ==
    { update_item(s, item_key, updates, env) : updates \in UpdateMaps }
    \cup { update_item_tags(s, item_key, tags, env) : tags \in TagLists }
    \cup { delete_item(s, item_key, env) }
    \cup { move_item_to_collection(s, item_key, collection_key, env) :
             collection_key \in CollectionKeys }

\* C19: update_item, update_item_tags, delete_item and move_item_to_collection called
\* with a key no item has fail and leave every table of the store as it was, with
\* the error "Item not found" when the application runs and the store file is
\* there; move_item_to_collection called for an item that exists and a collection
\* key no collection has fails with "Collection not found", the store as it was.
C19_AbsentKeyLeavesStore ==
    \A item_key \in StoreKeys, env \in Envs :
        /\ SelectItemID(db, item_key) = {} =>
               \A r \in PointWriteResults(db, item_key, env) :
                   /\ ~r.success
                   /\ r.db = db
                   /\ env = "ok" => r.error = "Item not found"
        /\ SelectItemID(db, item_key) # {} =>
               LET r == move_item_to_collection(db, item_key, "CX", env)
               IN /\ ~r.success
                  /\ r.db = db
                  /\ env = "ok" => r.error = "Collection not found"

\* C19 witness: K1 was deleted, and the last call, a point write, failed on a store
\* that holds K2 and no longer K1.
C19_Witness ==
    /\ SelectItemID(db, "K1") = {}
    /\ SelectItemID(db, "K2") # {}
    /\ last.op \in {"update_item", "update_item_tags", "delete_item",
                    "move_item_to_collection"}
    /\ ~last.success

\* C20: a provider that raises or returns nothing does not end the acquisition: when
\* providers are left fetch_pdf goes on to the next one, and a failure returned from
\* the loop is the exhaustion of the list, every provider tried without success.
C20_ProviderFailureNeverAborts ==
    [][ pc = "loop" =>
          /\ (~invoked'[Len(invoked')].success /\ idx < Len(sources_order))
                => /\ pc' = "loop"
                   /\ idx' = idx + 1
                   /\ ~result'.returned
          /\ (result'.returned /\ ~result'.success)
                => /\ { invoked'[i].src : i \in 1..Len(invoked') } = Range(all_sources)
                   /\ \A i \in 1..Len(invoked') : ~invoked'[i].success
                   /\ result'.error = "Could not find PDF from any source" ]_vars

\* C20 witness: the failure is returned after the seventh provider, whose request
\* raised.
C20_Witness ==
    /\ pc = "done"
    /\ result.returned
    /\ ~result.success
    /\ Len(invoked) = Len(all_sources)
    /\ response.kind = "exception"

\* C21: within one fetch_pdf request each provider is attempted once: no provider
\* sends a second request to a URL it has already asked, a transient network error
\* included, before fetch_pdf moves on to the next provider.
C21_NoRetryInsideProvider ==
    \A i \in 1..Len(invoked) : invoked[i].requests <= 1

\* The rows of the store that hang on an item: its tags, creators, field values
\* and collection links.
ChildRows(s, item_id) ==
    { r \in s.itemTags \cup s.itemCreators \cup s.itemData \cup s.collectionItems :
        r.itemID = item_id }

\* C22: at no point of a delete_item does the store, as the deleting connection sees
\* it, lack the Item row while a child row of the item (tag link, creator link,
\* field value, collection link) still exists.
C22_ItemRowDeletedLast ==
    \A w \in Writers :
        (conns[w].op = "delete_item" /\ conns[w].in_txn
         /\ \A i \in conns[w].work.items : i.itemID # conns[w].item_id)
        => ChildRows(conns[w].work, conns[w].item_id) = {}

\* The words (maximal runs of characters that are not whitespace) of the
\* characters lo..hi of str, with whether the first and the last character belong
\* to a word; the words of two halves meet where both are open.
RECURSIVE WordsOf(_, _, _)
WordsOf(str, lo, hi) ==
    IF lo > hi THEN [ words |-> <<>>, open_left |-> FALSE, open_right |-> FALSE ]
    ELSE IF lo = hi
    THEN (IF SubSeq(str, lo, lo) \in Whitespace
          THEN [ words |-> <<>>, open_left |-> FALSE, open_right |-> FALSE ]
          ELSE [ words |-> << SubSeq(str, lo, lo) >>, open_left |-> TRUE, open_right |-> TRUE ])
    ELSE LET mid == (lo + hi) \div 2
             left == WordsOf(str, lo, mid)
             right == WordsOf(str, mid + 1, hi)
         IN [ words |->
                IF left.open_right /\ right.open_left
                THEN SubSeq(left.words, 1, Len(left.words) - 1)
                     \o << left.words[Len(left.words)] \o Head(right.words) >>
                     \o Tail(right.words)
                ELSE left.words \o right.words,
              open_left |-> left.open_left,
              open_right |-> right.open_right ]

Words(str) == WordsOf(str, 1, Len(str)).words

\* The words lo..hi with one space between neighbours.
RECURSIVE SpacedFrom(_, _, _)
SpacedFrom(words, lo, hi) ==
    IF lo > hi THEN ""
    ELSE IF lo = hi THEN words[lo]
    ELSE LET mid == (lo + hi) \div 2
         IN SpacedFrom(words, lo, mid) \o " " \o SpacedFrom(words, mid + 1, hi)

Spaced(words) == SpacedFrom(words, 1, Len(words))

AbstractEntries == { d \in validation.differences : d.field = "abstract" }

\* An abstract entry is reported exactly when the abstracts differ in their words.
AbstractReportedOnNormalizedMismatch ==
    (AbstractEntries # {})
        <=> (Words(validation.zotero_metadata.abstract) # Words(arxiv_metadata.abstract))

\* C23 as stated: _compare_metadata reports an abstract entry only when the
\* abstracts differ after every run of whitespace is collapsed, and each abstract
\* value of the entry is at most 200 characters long.
C23_AbstractValuesAtMost200 ==
    last.op = "_compare_metadata" =>
        /\ AbstractReportedOnNormalizedMismatch
        /\ \A d \in AbstractEntries :
               Len(d.Zotero) <= DisplayLength /\ Len(d.arXiv) <= DisplayLength

\* The value an entry shows for an abstract: the collapsed abstract, or its first
\* 200 characters and the marker "..." when it is longer.
ShownAs(value, abstract) ==
    LET normalized == Spaced(Words(abstract))
    IN IF Len(normalized) <= DisplayLength THEN value = normalized
       ELSE /\ Len(value) = DisplayLength + 3
            /\ SubSeq(value, 1, DisplayLength) = SubSeq(normalized, 1, DisplayLength)
            /\ SubSeq(value, DisplayLength + 1, DisplayLength + 3) = "..."

\* C23 amended: _compare_metadata reports an abstract entry only when the
\* abstracts differ after every run of whitespace is collapsed, and each abstract
\* value of the entry is the collapsed abstract when that has at most 200
\* characters and otherwise its first 200 characters followed by "...".
C23_AbstractValuesKeep200AndMarker ==
    last.op = "_compare_metadata" =>
        /\ AbstractReportedOnNormalizedMismatch
        /\ \A d \in AbstractEntries :
               /\ ShownAs(d.Zotero, validation.zotero_metadata.abstract)
               /\ ShownAs(d.arXiv, arxiv_metadata.abstract)

\* C23 witness: an entry for a stored abstract longer than 200 characters against
\* an authoritative one that is not.
C23_Witness ==
    /\ last.op = "_compare_metadata"
    /\ Len(Spaced(Words(validation.zotero_metadata.abstract))) > DisplayLength
    /\ Len(Spaced(Words(arxiv_metadata.abstract))) <= DisplayLength
    /\ AbstractEntries # {}

\* The last names the comparison takes from the stored creators, as a set.
StoredLastNames ==
    { c.lastName : c \in { c \in Range(validation.zotero_metadata.creators) :
                             c.creatorType \in {"author", "coauthor"} /\ c.lastName # "" } }

\* C24: the authors are compared as unordered sets of last names: for every pair
\* of lists, the empty ones included, an authors entry is reported whenever the
\* sets differ and none when they are equal.
C24_AuthorsEntryIffSetsDiffer ==
    last.op = "_compare_metadata" =>
        ((\E d \in validation.differences : d.field = "authors")
            <=> (StoredLastNames # Range(arxiv_metadata.authors)))

\* C25: a point write that meets a locked or unavailable store returns an error
\* result to its caller instead of raising, and is not tried again: once a
\* statement of the call has raised, the call has returned {"success": False,
\* "error": ...} and executes nothing more.
C25_FailureSurfacedOnceNotRetried ==
    [][\A w \in Writers :
          /\ conns'[w].raised =>
                /\ conns'[w].returned
                /\ ~conns'[w].success
                /\ conns'[w].error # ""
                /\ conns'[w].pc = "done"
          /\ conns[w].raised => conns'[w] = conns[w]]_vars

\* C25 witness: an update_item_tags call whose statement met the locked store
\* after the call had written.
C25_Witness ==
    \E w \in Writers :
        /\ conns[w].op = "update_item_tags"
        /\ conns[w].raised
        /\ conns[w].error = "database is locked"
        /\ conns[w].written > 0
        /\ conns[w].returned /\ ~conns[w].success

\* The step in which a statement of connection w raises after the call has
\* executed at least one writing statement.
FailsPartway(w) == ~conns[w].raised /\ conns'[w].raised /\ conns[w].written > 0

\* C26 as stated: a mutation whose statement fails partway reports an error and
\* is not rolled back: what the statements executed before the failure wrote
\* remains in the store.
C26_PartialEffectsRemain ==
    [][\A w \in Writers :
          FailsPartway(w) =>
              /\ conns'[w].returned /\ ~conns'[w].success /\ conns'[w].error # ""
              /\ db' = conns[w].work]_vars

\* C26 amended: a mutation whose statement fails partway reports an error and
\* leaves nothing behind: the statements executed before the failure ran in the
\* connection's open transaction, which is dropped with the connection, so the
\* store stays as it was; the store changes only when a call's conn.commit() runs.
C26_PartialEffectsDiscarded ==
    [][/\ \A w \in Writers :
             FailsPartway(w) =>
                 /\ conns'[w].returned /\ ~conns'[w].success /\ conns'[w].error # ""
                 /\ db' = db
       /\ db' # db =>
             \E w \in Writers :
                 conns[w].pc = "commit" /\ conns'[w].pc = "done" /\ ~conns'[w].raised]_vars

\* C26 witness: attachment creation that failed at its fourth INSERT, after the
\* attachment's item row, title link and title value had been inserted, and the
\* store holds none of them.
C26_Witness ==
    \E w \in Writers :
        /\ conns[w].op = "_attach_pdf_to_zotero"
        /\ conns[w].raised
        /\ conns[w].written = 3
        /\ \A i \in db.items : i.itemID # conns[w].max_item_id + 1

\* The pairs of a field map whose name update_item maps and the store's field
\* table holds.
RECURSIVE KnownUpdates(_, _)
KnownUpdates(s, updates) ==
    IF updates = <<>> THEN <<>>
    ELSE (IF Head(updates)[1] \in field_name_to_id /\ SelectFieldID(s, Head(updates)[1]) # {}
          THEN << Head(updates) >> ELSE <<>>)
         \o KnownUpdates(s, Tail(updates))

\* C27: update_item given a field name the field table does not hold passes over
\* it without failing: the call writes what the known fields of the map alone
\* would write and reports no error, also when every name of the map is unknown
\* (for an item the store holds, with the owning application running).
C27_UnknownFieldSkippedWithoutError ==
    \A item_key \in StoreKeys, updates \in UpdateMaps :
        LET known == KnownUpdates(db, updates)
            r == update_item(db, item_key, updates, "ok")
        IN (Gate(db, item_key, "ok") = "" /\ known # updates)
           => /\ r.db = update_item(db, item_key, known, "ok").db
              /\ r.success
              /\ r.error = ""

\* The (field name, value) pairs _get_item_from_database reads for an item.
FieldPairs(s, item_key) ==
    LET rows == { d \in s.itemData : d.itemID \in SelectItemID(s, item_key) }
        joined == { t \in rows \X s.fields \X s.itemDataValues :
                      t[1].fieldID = t[2].fieldID /\ t[1].valueID = t[3].valueID }
    IN { <<t[2].fieldName, t[3].value>> : t \in joined }

\* C30: update_item on one item changes only that item's field values: every
\* other item reads the same (field name, value) pairs before and after the call.
C30_OtherItemsFieldsUnchanged ==
    \A item_key \in StoreKeys, updates \in UpdateMaps :
        LET r == update_item(db, item_key, updates, "ok")
        IN \A other \in StoreKeys \ {item_key} :
               FieldPairs(r.db, other) = FieldPairs(db, other)

\* The ids connection w allocates in a step (MAX + 1 of the table it read).
NewlyAllocated(w) == conns'[w].allocated \ conns[w].allocated

\* C28 as stated, its serialized half: two invocations allocate the same id only
\* when their allocate-and-insert sequences are interleaved; an invocation that
\* allocates after the other has returned allocates an id the other did not.
C28_SerializedAllocateDistinct ==
    [][\A w \in Writers : \A o \in Writers \ {w} :
          NewlyAllocated(w) \cap conns[o].allocated # {} => conns[o].pc # "done"]_vars

\* C28 amended: an id allocated by an invocation that has committed is never
\* allocated again: an invocation allocates an id the other has allocated only
\* while the other is still running, or after the other failed and its inserts
\* were discarded; a tagID only in the second case, because update_item_tags has
\* taken the write lock before it reads MAX(tagID).
C28_CommittedIdNotAllocatedAgain ==
    [][\A w \in Writers : \A o \in Writers \ {w} :
          \A a \in NewlyAllocated(w) \cap conns[o].allocated :
              /\ conns[o].pc # "done" \/ ~conns[o].success
              /\ a.id = "tagID" => conns[o].pc = "done"]_vars

\* C28 witness: two update_item calls read the same MAX(valueID) before either
\* inserted: both allocated the same valueID, one committed it and the other's
\* INSERT met the primary key.
C28_Witness ==
    \E w \in Writers : \E o \in Writers \ {w} :
        /\ \E a \in conns[w].allocated \cap conns[o].allocated : a.id = "valueID"
        /\ conns[w].op = "update_item" /\ conns[o].op = "update_item"
        /\ conns[w].success
        /\ conns[o].error = "UNIQUE constraint failed"

\* C29: when save_to_zotero is true and the attachment write fails, fetch_pdf
\* still returns success with the fetched content and attachment_added false, and
\* no further provider is tried: the provider that delivered is the last invoked.
C29_AttachFailureKeepsAcquisition ==
    [][/\ (/\ pc = "loop"
           /\ req.save_to_zotero
           /\ invoked'[Len(invoked')].success
           /\ last' = [ op |-> "attach_pdf", success |-> FALSE ])
          => /\ result'.returned
             /\ result'.success
             /\ result'.pdf_content = response'.content
             /\ result'.size = response'.content.size
             /\ ~result'.attachment_added
             /\ pc' = "done"
             /\ Len(invoked') = Len(invoked) + 1
       /\ (pc = "done" /\ pc' # "idle") => invoked' = invoked]_vars

\* C29 witness: fetch_pdf with save_to_zotero returned after the second provider
\* delivered and the attachment write failed.
C29_Witness ==
    /\ pc = "done"
    /\ req.save_to_zotero
    /\ last = [ op |-> "attach_pdf", success |-> FALSE ]
    /\ result.returned /\ result.success
    /\ ~result.attachment_added
    /\ Len(invoked) = 2
    /\ Len(invoked) < Len(sources_order)
====
